---- MODULE Spec2Model ----
(***************************************************************************)
(* Price-Mon: the shopping-list share code (generateListShareCode,         *)
(* decodeListShareCode, joinSharedList), the store price comparison        *)
(* (compareStores), the scan-to-join screen (handleBarCodeScanned) and the *)
(* unread notification count (NotificationCountManager), modelled from the *)
(* TypeScript sources.                                                     *)
(*                                                                         *)
(* A JavaScript string is the sequence of its UTF-16 code units; a string  *)
(* literal is written as its code units, with the text beside it.          *)
(***************************************************************************)
EXTENDS Integers, Sequences, FiniteSets, TLC

VARIABLES
  now,            \* Date.now(), in milliseconds
  genPc,          \* generateListShareCode: "idle", "fetching" or "done"
  genListId,      \* its argument
  genResult,      \* its completion: the share code, or the exception
  genStamp,       \* what its second Date.now() returned
  genInvitation,  \* the invitation identifier it built
  genQueries,     \* backend queries generateListShareCode has issued
  decCode,      \* the argument of the last decodeListShareCode call
  decKind,        \* how that argument was made
  decFrom,        \* the record it was serialised from, if any
  decAt,          \* Date.now() during that call
  decoded         \* the completion of that call

codecVars ==
  <<now, genPc, genListId, genResult, genStamp, genInvitation, genQueries,
    decCode, decKind, decFrom, decAt, decoded>>

VARIABLES
  members,           \* the rows of shopping_list_members, in insertion order
  uniqueConstraint,  \* whether the store rejects a second row of a pair
  calls              \* the joinSharedList calls, by call number

joinVars == <<members, uniqueConstraint, calls>>

VARIABLES
  store1, store2,     \* the selected stores' ids, or "none"
  listItems,          \* shopping_list_items of the list, with price rows
  comparisons,        \* the rows shown
  store1Total, store2Total, savingsPercentage, savingsText,
  compares,           \* the compareStores calls, by call number
  alert,              \* the last Alert.alert shown
  shownFor,           \* the stores of the call whose rows are shown
  replacedTotal       \* store1Total as it was before those rows were set

compareVars ==
  <<store1, store2, listItems, comparisons, store1Total, store2Total,
    savingsPercentage, savingsText, compares, alert, shownFor,
    replacedTotal>>

VARIABLES
  user,              \* useAuth().user: the user's id, or "" for null
  scanned, processing, scanInstructions,
  view,              \* scanned and processing as the last render bound them
  timers,            \* pending setTimeout(() => setScanned(false), 2000)
  awaiting,          \* the calls whose handler awaits joinSharedList
  outcome            \* the last Alert.alert of the screen, "pending" while
                     \* the last handler awaits joinSharedList

scanVars ==
  <<user, scanned, processing, scanInstructions, view, timers, awaiting,
    outcome>>

VARIABLES
  unseen,            \* the user's rows of notifications with seen = false
  count,             \* NotificationCountManager.count
  listeners,         \* NotificationCountManager.listeners
  heard,             \* what each listener was last called with (-1: never)
  fetches            \* the updateUnreadNotificationCount calls, by number

badgeVars == <<unseen, count, listeners, heard, fetches>>


----------------------------------------------------------------------------
(* btoa / atob: the platform's base64 functions used at                    *)
(* BottomTabNavigator.tsx:166 and :181 (forgiving-base64 of the HTML       *)
(* standard).                                                              *)

\* A call's completion: a value, or an exception (of a call that yields a
\* string: Thrown).
Ok(v) == [threw |-> FALSE, val |-> v]
Thrown == [threw |-> TRUE, val |-> <<>>]

B64Char(v) ==
  IF v < 26 THEN 65 + v                   \* "A".."Z"
  ELSE IF v < 52 THEN 97 + (v - 26)       \* "a".."z"
  ELSE IF v < 62 THEN 48 + (v - 52)       \* "0".."9"
  ELSE IF v = 62 THEN 43 ELSE 47          \* "+", "/"

\* The 6-bit value of a base64 character, -1 when it is none.
B64Value(c) ==
  IF c >= 65 /\ c <= 90 THEN c - 65
  ELSE IF c >= 97 /\ c <= 122 THEN 26 + (c - 97)
  ELSE IF c >= 48 /\ c <= 57 THEN 52 + (c - 48)
  ELSE IF c = 43 THEN 62
  ELSE IF c = 47 THEN 63 ELSE -1

\* Three bytes make four characters; "=" (61) pads the last group.
RECURSIVE B64Encode(_, _)
B64Encode(bytes, i) ==
  IF Len(bytes) - i + 1 <= 0 THEN <<>>
  ELSE IF Len(bytes) - i + 1 = 1 THEN
    <<B64Char(bytes[i] \div 4), B64Char((bytes[i] % 4) * 16), 61, 61>>
  ELSE IF Len(bytes) - i + 1 = 2 THEN
    <<B64Char(bytes[i] \div 4),
      B64Char((bytes[i] % 4) * 16 + bytes[i + 1] \div 16),
      B64Char((bytes[i + 1] % 16) * 4), 61>>
  ELSE
    <<B64Char(bytes[i] \div 4),
      B64Char((bytes[i] % 4) * 16 + bytes[i + 1] \div 16),
      B64Char((bytes[i + 1] % 16) * 4 + bytes[i + 2] \div 64),
      B64Char(bytes[i + 2] % 64)>> \o B64Encode(bytes, i + 3)

\* btoa throws InvalidCharacterError on a code unit above 255.
btoa(s) ==
  IF \E i \in 1..Len(s) : s[i] > 255 THEN Thrown ELSE Ok(B64Encode(s, 1))

\* The 6-bit values of the characters of d.
B64Values(d) == [i \in 1..Len(d) |-> B64Value(d[i])]

\* Four values make three bytes; the spare bits of a last group of two or
\* three are dropped.
RECURSIVE B64Decode(_, _)
B64Decode(v, i) ==
  IF Len(v) - i + 1 <= 1 THEN <<>>
  ELSE IF Len(v) - i + 1 = 2 THEN <<v[i] * 4 + v[i + 1] \div 16>>
  ELSE IF Len(v) - i + 1 = 3 THEN
    <<v[i] * 4 + v[i + 1] \div 16, (v[i + 1] % 16) * 16 + v[i + 2] \div 4>>
  ELSE
    <<v[i] * 4 + v[i + 1] \div 16, (v[i + 1] % 16) * 16 + v[i + 2] \div 4,
      (v[i + 2] % 4) * 64 + v[i + 3]>> \o B64Decode(v, i + 4)

IsAsciiWhitespace(c) == c \in {9, 10, 12, 13, 32}

\* Of a text whose length is a multiple of 4, one or two trailing "=" go.
StripPadding(d) ==
  IF Len(d) > 0 /\ Len(d) % 4 = 0 /\ d[Len(d)] = 61
  THEN IF d[Len(d) - 1] = 61 THEN SubSeq(d, 1, Len(d) - 2)
       ELSE SubSeq(d, 1, Len(d) - 1)
  ELSE d

\* A length of 1 mod 4 or a character outside the alphabet: atob throws.
DecodeStripped(d, v) ==
  IF Len(d) % 4 = 1 \/ \E i \in 1..Len(d) : v[i] < 0 THEN Thrown
  ELSE Ok(B64Decode(v, 1))

AtobStripped(d) == DecodeStripped(d, B64Values(d))

AtobNoWs(d) == AtobStripped(StripPadding(d))

\* atob: ASCII whitespace is removed first.
atob(s) == AtobNoWs(SelectSeq(s, LAMBDA c : ~IsAsciiWhitespace(c)))

----------------------------------------------------------------------------
(* JSON values: what JSON.parse yields and JSON.stringify takes.           *)
(* A number is m * 10^x, kept with x <= 0 and no trailing decimal zero.    *)

JV(t, b, m, x, s, k, a) ==
  [t |-> t, b |-> b, m |-> m, x |-> x, s |-> s, k |-> k, a |-> a]

JUndefined == JV("undefined", FALSE, 0, 0, <<>>, <<>>, <<>>)
JNull == JV("null", FALSE, 0, 0, <<>>, <<>>, <<>>)
JBool(b) == JV("bool", b, 0, 0, <<>>, <<>>, <<>>)
JInt(n) == JV("num", FALSE, n, 0, <<>>, <<>>, <<>>)
JStr(s) == JV("str", FALSE, 0, 0, s, <<>>, <<>>)
JArr(items) == JV("arr", FALSE, 0, 0, <<>>, <<>>, items)
\* An object: its keys in insertion order and their values.
JObj(keys, vals) == JV("obj", FALSE, 0, 0, <<>>, keys, vals)

RECURSIVE Pow10(_)
Pow10(k) == IF k <= 0 THEN 1 ELSE 10 * Pow10(k - 1)

RECURSIVE JNum(_, _)
JNum(m, x) ==
  IF m = 0 THEN JInt(0)
  ELSE IF x > 0 THEN JNum(m * 10, x - 1)
  ELSE IF x < 0 /\ m % 10 = 0 THEN JNum(m \div 10, x + 1)
  ELSE JV("num", FALSE, m, x, <<>>, <<>>, <<>>)

\* An exception of a call that yields a JSON value.
ThrownV == [threw |-> TRUE, val |-> JUndefined]

\* ToBoolean
Truthy(v) ==
  CASE v.t \in {"undefined", "null"} -> FALSE
    [] v.t = "bool" -> v.b
    [] v.t = "num" -> v.m # 0
    [] v.t = "str" -> Len(v.s) > 0
    [] OTHER -> TRUE

\* v[key] for a key that no prototype defines: a TypeError on null and
\* undefined, the own property of an object, undefined on anything else.
Get(v, key) ==
  IF v.t \in {"undefined", "null"} THEN ThrownV
  ELSE IF v.t = "obj" /\ \E i \in 1..Len(v.k) : v.k[i] = key
  THEN Ok(v.a[CHOOSE i \in 1..Len(v.k) : v.k[i] = key])
  ELSE Ok(JUndefined)

----------------------------------------------------------------------------
(* JSON.stringify (BottomTabNavigator.tsx:166)                             *)

RECURSIVE DigitsOf(_)
DigitsOf(n) ==
  IF n < 10 THEN <<48 + n>> ELSE Append(DigitsOf(n \div 10), 48 + (n % 10))

\* d with a decimal point before its last k digits.
PlaceDecimals(d, k) ==
  IF k = 0 THEN d
  ELSE IF Len(d) > k
  THEN SubSeq(d, 1, Len(d) - k) \o <<46>> \o SubSeq(d, Len(d) - k + 1, Len(d))
  ELSE <<48, 46>> \o [i \in 1..(k - Len(d)) |-> 48] \o d

\* Number::toString in its plain decimal range.
NumToStr(m, x) ==
  IF m < 0 THEN <<45>> \o PlaceDecimals(DigitsOf(-m), -x)
  ELSE PlaceDecimals(DigitsOf(m), -x)

HexDigit(v) == IF v < 10 THEN 48 + v ELSE 97 + (v - 10)

\* \uXXXX
UnicodeEscape(c) ==
  <<92, 117, HexDigit(c \div 4096), HexDigit((c \div 256) % 16),
    HexDigit((c \div 16) % 16), HexDigit(c % 16)>>

IsLeadSurrogate(c) == c >= 55296 /\ c <= 56319
IsTrailSurrogate(c) == c >= 56320 /\ c <= 57343

\* QuoteJSONString for the code unit at s[i]: \b \t \n \f \r \" \\, \uXXXX
\* for other control characters and lone surrogates, else the unit itself.
QuoteChar(s, i) ==
  CASE s[i] = 8 -> <<92, 98>>
    [] s[i] = 9 -> <<92, 116>>
    [] s[i] = 10 -> <<92, 110>>
    [] s[i] = 12 -> <<92, 102>>
    [] s[i] = 13 -> <<92, 114>>
    [] s[i] = 34 -> <<92, 34>>
    [] s[i] = 92 -> <<92, 92>>
    [] s[i] < 32 /\ s[i] \notin {8, 9, 10, 12, 13} -> UnicodeEscape(s[i])
    [] IsLeadSurrogate(s[i]) ->
         IF i < Len(s) /\ IsTrailSurrogate(s[i + 1]) THEN <<s[i]>>
         ELSE UnicodeEscape(s[i])
    [] IsTrailSurrogate(s[i]) ->
         IF i > 1 /\ IsLeadSurrogate(s[i - 1]) THEN <<s[i]>>
         ELSE UnicodeEscape(s[i])
    [] OTHER -> <<s[i]>>

RECURSIVE QuoteFrom(_, _)
QuoteFrom(s, i) ==
  IF i > Len(s) THEN <<>> ELSE QuoteChar(s, i) \o QuoteFrom(s, i + 1)

Quote(s) == <<34>> \o QuoteFrom(s, 1) \o <<34>>

RECURSIVE JSONstringify(_), StringifyElements(_, _), StringifyMembers(_, _, _)
JSONstringify(v) ==
  CASE v.t = "null" -> <<110, 117, 108, 108>>
    [] v.t = "bool" -> IF v.b THEN <<116, 114, 117, 101>> ELSE <<102, 97, 108, 115, 101>>
    [] v.t = "num" -> NumToStr(v.m, v.x)
    [] v.t = "str" -> Quote(v.s)
    [] v.t = "arr" -> <<91>> \o StringifyElements(v.a, 1) \o <<93>>
    [] v.t = "obj" -> <<123>> \o StringifyMembers(v, 1, TRUE) \o <<125>>

\* Elements are separated by "," (44); an undefined one is written as null.
StringifyElements(a, i) ==
  IF i > Len(a) THEN <<>>
  ELSE (IF i > 1 THEN <<44>> ELSE <<>>)
       \o (IF a[i].t = "undefined" THEN <<110, 117, 108, 108>> ELSE JSONstringify(a[i]))
       \o StringifyElements(a, i + 1)

\* "key":value; a property whose value is undefined is left out.
StringifyMembers(o, i, first) ==
  IF i > Len(o.k) THEN <<>>
  ELSE IF o.a[i].t = "undefined" THEN StringifyMembers(o, i + 1, first)
  ELSE (IF first THEN <<>> ELSE <<44>>)
       \o Quote(o.k[i]) \o <<58>> \o JSONstringify(o.a[i])
       \o StringifyMembers(o, i + 1, FALSE)

----------------------------------------------------------------------------
(* JSON.parse (BottomTabNavigator.tsx:184)                                 *)

\* A parse step: ok, the value read, and the index after it.
PFail == [ok |-> FALSE, v |-> JUndefined, i |-> 0]
POk(v, i) == [ok |-> TRUE, v |-> v, i |-> i]

IsJsonWhitespace(c) == c \in {9, 10, 13, 32}
IsDigit(c) == c >= 48 /\ c <= 57

\* The character at t[i], or -1 past the end.
At(t, i) == IF i >= 1 /\ i <= Len(t) THEN t[i] ELSE -1

RECURSIVE SkipWs(_, _)
SkipWs(t, i) == IF IsJsonWhitespace(At(t, i)) THEN SkipWs(t, i + 1) ELSE i

MatchAt(t, i, lit) ==
  /\ i + Len(lit) - 1 <= Len(t)
  /\ \A j \in 1..Len(lit) : t[i + j - 1] = lit[j]

HexValue(c) ==
  IF IsDigit(c) THEN c - 48
  ELSE IF c >= 97 /\ c <= 102 THEN 10 + (c - 97)
  ELSE IF c >= 65 /\ c <= 70 THEN 10 + (c - 65)
  ELSE -1

\* The code unit of the escape \uXXXX at t[i], -1 when it is malformed.
HexEscape(t, i) ==
  IF \A k \in 2..5 : HexValue(At(t, i + k)) >= 0
  THEN HexValue(t[i + 2]) * 4096 + HexValue(t[i + 3]) * 256
       + HexValue(t[i + 4]) * 16 + HexValue(t[i + 5])
  ELSE -1

\* The characters of a string literal from t[i] on, up to its closing quote
\* (34); a backslash (92) starts an escape.
RECURSIVE ParseChars(_, _, _)
ParseChars(t, i, acc) ==
  IF At(t, i) < 32 THEN PFail
  ELSE IF At(t, i) = 34 THEN POk(JStr(acc), i + 1)
  ELSE IF At(t, i) # 92 THEN ParseChars(t, i + 1, Append(acc, t[i]))
  ELSE IF At(t, i + 1) \in {34, 92, 47}
  THEN ParseChars(t, i + 2, Append(acc, t[i + 1]))
  ELSE IF At(t, i + 1) = 98 THEN ParseChars(t, i + 2, Append(acc, 8))
  ELSE IF At(t, i + 1) = 102 THEN ParseChars(t, i + 2, Append(acc, 12))
  ELSE IF At(t, i + 1) = 110 THEN ParseChars(t, i + 2, Append(acc, 10))
  ELSE IF At(t, i + 1) = 114 THEN ParseChars(t, i + 2, Append(acc, 13))
  ELSE IF At(t, i + 1) = 116 THEN ParseChars(t, i + 2, Append(acc, 9))
  ELSE IF At(t, i + 1) = 117 /\ HexEscape(t, i) >= 0
  THEN ParseChars(t, i + 6, Append(acc, HexEscape(t, i)))
  ELSE PFail

RECURSIVE DigitsEnd(_, _)
DigitsEnd(t, i) == IF IsDigit(At(t, i)) THEN DigitsEnd(t, i + 1) ELSE i

\* The value of the digits t[i..j-1], continuing from acc.
RECURSIVE DigitsVal(_, _, _, _)
DigitsVal(t, i, j, acc) ==
  IF i >= j THEN acc ELSE DigitsVal(t, i + 1, j, acc * 10 + (t[i] - 48))

\* -? (0 | [1-9][0-9]*) (. [0-9]+)? ([eE] [+-]? [0-9]+)?
\* The exponent, from its digits at t[i4..]: m is the mantissa with its
\* sign, x the negated count of decimals.
NumberExponent(t, m, x, i4, negExp) ==
  IF DigitsEnd(t, i4) = i4 THEN PFail
  ELSE POk(JNum(m, x + (IF negExp THEN -DigitsVal(t, i4, DigitsEnd(t, i4), 0)
                        ELSE DigitsVal(t, i4, DigitsEnd(t, i4), 0))),
           DigitsEnd(t, i4))

\* After the mantissa, which ends before t[i3].
NumberTail(t, m, x, i3) ==
  IF At(t, i3) \notin {101, 69} THEN POk(JNum(m, x), i3)
  ELSE IF At(t, i3 + 1) \in {43, 45}
  THEN NumberExponent(t, m, x, i3 + 2, At(t, i3 + 1) = 45)
  ELSE NumberExponent(t, m, x, i3 + 1, FALSE)

\* The fraction, whose digits are t[i2+1..i3-1].
NumberFraction(t, neg, whole, i2, i3) ==
  IF i3 = i2 + 1 THEN PFail
  ELSE NumberTail(t, IF neg THEN -DigitsVal(t, i2 + 1, i3, whole)
                     ELSE DigitsVal(t, i2 + 1, i3, whole),
                  -(i3 - (i2 + 1)), i3)

\* The integer part is t[i1..i2-1].
NumberWhole(t, neg, i1, i2) ==
  IF i2 = i1 THEN PFail
  ELSE IF At(t, i2) = 46
  THEN NumberFraction(t, neg, DigitsVal(t, i1, i2, 0), i2,
                      DigitsEnd(t, i2 + 1))
  ELSE NumberTail(t, IF neg THEN -DigitsVal(t, i1, i2, 0)
                     ELSE DigitsVal(t, i1, i2, 0), 0, i2)

NumberDigits(t, neg, i1) ==
  NumberWhole(t, neg, i1, IF At(t, i1) = 48 THEN i1 + 1 ELSE DigitsEnd(t, i1))

ParseNumber(t, i) ==
  IF At(t, i) = 45 THEN NumberDigits(t, TRUE, i + 1)
  ELSE NumberDigits(t, FALSE, i)

\* An object with key set to v: a repeated key keeps its place and takes
\* the later value.
PutMember(o, key, v) ==
  IF \E i \in 1..Len(o.k) : o.k[i] = key
  THEN JObj(o.k, [o.a EXCEPT ![CHOOSE i \in 1..Len(o.k) : o.k[i] = key] = v])
  ELSE JObj(Append(o.k, key), Append(o.a, v))

RECURSIVE ParseValue(_, _), ParseElements(_, _, _), ParseMembers(_, _, _)

\* The value that starts at t[i], which is no whitespace.
ParseAt(t, i) ==
  CASE At(t, i) = 123 ->                                   \* {
         IF At(t, SkipWs(t, i + 1)) = 125                   \* }
         THEN POk(JObj(<<>>, <<>>), SkipWs(t, i + 1) + 1)
         ELSE ParseMembers(t, i + 1, JObj(<<>>, <<>>))
    [] At(t, i) = 91 ->                                    \* [
         IF At(t, SkipWs(t, i + 1)) = 93                    \* ]
         THEN POk(JArr(<<>>), SkipWs(t, i + 1) + 1)
         ELSE ParseElements(t, i + 1, <<>>)
    [] At(t, i) = 34 -> ParseChars(t, i + 1, <<>>)
    [] At(t, i) = 45 \/ IsDigit(At(t, i)) -> ParseNumber(t, i)
    [] At(t, i) = 116 ->
         IF MatchAt(t, i, <<116, 114, 117, 101>>) THEN POk(JBool(TRUE), i + 4) ELSE PFail
    [] At(t, i) = 102 ->
         IF MatchAt(t, i, <<102, 97, 108, 115, 101>>) THEN POk(JBool(FALSE), i + 5) ELSE PFail
    [] At(t, i) = 110 ->
         IF MatchAt(t, i, <<110, 117, 108, 108>>) THEN POk(JNull, i + 4) ELSE PFail
    [] OTHER -> PFail

ParseValue(t, i) == ParseAt(t, SkipWs(t, i))

\* After an element r, at t[j]: "," (44) and the next one, or "]" (93).
ElementNext(t, acc, j) ==
  IF At(t, j) = 44 THEN ParseElements(t, j + 1, acc)
  ELSE IF At(t, j) = 93 THEN POk(JArr(acc), j + 1)
  ELSE PFail

ElementRead(t, r, acc) ==
  IF ~r.ok THEN PFail ELSE ElementNext(t, Append(acc, r.v), SkipWs(t, r.i))

\* value (, value)* ] from t[i] on.
ParseElements(t, i, acc) == ElementRead(t, ParseValue(t, i), acc)

\* After a member, at t[j]: "," (44) and the next one, or "}" (125).
MemberNext(t, o, j) ==
  IF At(t, j) = 44 THEN ParseMembers(t, j + 1, o)
  ELSE IF At(t, j) = 125 THEN POk(o, j + 1)
  ELSE PFail

MemberValue(t, key, r, o) ==
  IF ~r.ok THEN PFail
  ELSE MemberNext(t, PutMember(o, key, r.v), SkipWs(t, r.i))

\* After the key, at t[j]: ":" (58) and the value.
MemberColon(t, key, j, o) ==
  IF At(t, j) = 58 THEN MemberValue(t, key, ParseValue(t, j + 1), o)
  ELSE PFail

MemberKey(t, key, o) ==
  IF ~key.ok THEN PFail ELSE MemberColon(t, key.v.s, SkipWs(t, key.i), o)

MemberAt(t, i, o) ==
  IF At(t, i) = 34 THEN MemberKey(t, ParseChars(t, i + 1, <<>>), o)
  ELSE PFail

\* string : value (, string : value)* } from t[i] on.
ParseMembers(t, i, o) == MemberAt(t, SkipWs(t, i), o)

ParseEnd(t, r) ==
  IF r.ok /\ SkipWs(t, r.i) = Len(t) + 1 THEN Ok(r.v) ELSE ThrownV

\* JSON.parse throws SyntaxError unless the whole text is one value.
JSONparse(t) == ParseEnd(t, ParseValue(t, 1))

----------------------------------------------------------------------------
(* The share code: src/src/navigation/BottomTabNavigator.tsx:132-202       *)

kListId == <<108, 105, 115, 116, 73, 100>>
kTimestamp == <<116, 105, 109, 101, 115, 116, 97, 109, 112>>
kInvitation == <<105, 110, 118, 105, 116, 97, 116, 105, 111, 110>>

\* A variant that names the third property "nonce".
ListShareDataNonce(listId, timestamp, invitation) ==
  JObj(<<kListId, kTimestamp, <<110, 111, 110, 99, 101>>>>,
       <<JStr(listId), JInt(timestamp), JStr(invitation)>>)

\* interface ListShareData, in the order line 159 writes its properties.
ListShareData(listId, timestamp, invitation) ==
  JObj(<<kListId, kTimestamp, kInvitation>>,
       <<JStr(listId), JInt(timestamp), JStr(invitation)>>)

\* `${listId}_${Date.now()}_${Math.random().toString(36).substring(2, 10)}`
InvitationId(listId, clock, token) ==
  listId \o <<95>> \o NumToStr(clock, 0) \o <<95>> \o token

\* Lines 155-166 of generateListShareCode: clock1 and clock2 are what the
\* two Date.now() calls return, token what Math.random() yields.
ShareCodeOf(listId, clock1, clock2, token) ==
  btoa(JSONstringify(
    ListShareData(listId, clock2, InvitationId(listId, clock1, token))))

expirationTime == 24 * 60 * 60 * 1000

\* The characters a numeric string can hold: digits, signs, ".", the
\* letters of exponents, radix prefixes, hex digits and Infinity, and white
\* space.
NumericChars ==
  (48..57) \cup {43, 45, 46, 101, 69, 120, 88, 111, 79, 98, 66, 97, 65, 99,
                 67, 100, 68, 102, 70, 73, 110, 105, 116, 121, 32}
  \cup {9, 10, 11, 12, 13, 160, 5760, 8232, 8233, 8239, 8287, 12288, 65279}
  \cup (8192..8202)

Number(k, m, x) == [k |-> k, m |-> m, x |-> x]

\* ToNumber of a JSON value: k is "num" (m * 10^x), "nan", or "unmodelled"
\* for the string and array forms whose numeric reading is not modelled.
ToNumber(v) ==
  CASE v.t = "num" -> Number("num", v.m, v.x)
    [] v.t = "bool" -> Number("num", IF v.b THEN 1 ELSE 0, 0)
    [] v.t = "null" -> Number("num", 0, 0)
    [] v.t \in {"undefined", "obj"} -> Number("nan", 0, 0)
    [] v.t = "str" ->
         IF \A i \in 1..Len(v.s) : IsDigit(v.s[i])
         THEN Number("num", DigitsVal(v.s, 1, Len(v.s) + 1, 0), 0)
         ELSE IF \E i \in 1..Len(v.s) : v.s[i] \notin NumericChars
         THEN Number("nan", 0, 0)
         ELSE Number("unmodelled", 0, 0)
    [] OTHER -> Number("unmodelled", 0, 0)

\* A variant that takes the age in seconds.
IsExpiredSeconds(clock, n) ==
  /\ n.k = "num"
  /\ (clock * Pow10(-n.x) - n.m) \div 1000 > expirationTime * Pow10(-n.x)

\* A variant that expires a code at its 24 hours, not after them.
IsExpiredAtLimit(clock, n) ==
  /\ n.k = "num"
  /\ (clock - expirationTime) * Pow10(-n.x) >= n.m

\* A variant that never expires a code.
IsExpiredNever(clock, n) == FALSE

\* Date.now() - timestamp > expirationTime (line 193), for a number n of
\* ToNumber; a comparison with NaN is false.
IsExpired(clock, n) ==
  /\ n.k = "num"
  /\ (clock - expirationTime) * Pow10(-n.x) > n.m

\* What decodeListShareCode yields for a timestamp outside the model.
JUnmodelled == JV("unmodelled", FALSE, 0, 0, <<>>, <<>>, <<>>)

\* Lines 191-197: the expiry check, on the number n of the timestamp.
CheckExpiry(shareData, n, clock) ==
  IF n.k = "unmodelled" THEN Ok(JUnmodelled)
  ELSE IF IsExpired(clock, n) THEN Ok(JNull)
  ELSE Ok(shareData)

\* Lines 186-189: the three properties must be truthy.  Reading a property
\* of null throws a TypeError.
ValidateFields(shareData, listId, timestamp, invitation, clock) ==
  IF listId.threw THEN ThrownV
  ELSE IF ~Truthy(listId.val) \/ ~Truthy(timestamp.val)
          \/ ~Truthy(invitation.val)
  THEN Ok(JNull)
  ELSE CheckExpiry(shareData, ToNumber(timestamp.val), clock)

ValidateShareData(shareData, clock) ==
  ValidateFields(shareData, Get(shareData, kListId),
                 Get(shareData, kTimestamp), Get(shareData, kInvitation),
                 clock)

\* Line 184: JSON.parse may throw.
DecodeParsed(parsed, clock) ==
  IF parsed.threw THEN ThrownV ELSE ValidateShareData(parsed.val, clock)

\* Line 181: atob may throw.
DecodeData(decodedData, clock) ==
  IF decodedData.threw THEN ThrownV
  ELSE DecodeParsed(JSONparse(decodedData.val), clock)

\* Lines 181-197: the body of the try block.
DecodeTry(shareCode, clock) == DecodeData(atob(shareCode), clock)

\* A variant without the catch clause.
CatchNothing(r) == r

\* The catch clause (lines 198-201) turns every exception into null.
CatchNull(r) == IF r.threw THEN Ok(JNull) ELSE r

\* Lines 178-202.
decodeListShareCode(shareCode, clock) == CatchNull(DecodeTry(shareCode, clock))

----------------------------------------------------------------------------
(* Bounds of the share-code model                                          *)

MaxMsTicks == 2
MaxDayTicks == 2
MaxGenerations == 2

\* The clock starts more than one validity window after the epoch.
ClockStart == 2 * expirationTime + 1000

L1 == <<76, 49>>                  \* "L1"
\* A list id holding a quote, a backslash and a byte above 127: a"\é
LQuote == <<97, 34, 92, 233>>
\* A list id holding a code unit above 255.
LWide == <<76, 20013>>
LMissing == <<122, 122>>            \* "zz"

\* Rows of shopping_lists, by id.
ShoppingLists == {L1, LQuote, LWide}
GenListIds == ShoppingLists \cup {LMissing, <<>>}

\* Math.random().toString(36).substring(2, 10): up to 8 characters of 0-9a-z.
RandomTokens ==
  {<<>>, <<120, 49>>, <<107, 51, 102, 57, 122, 48, 97, 98>>}
    \* "", "x1", "k3f9z0ab"

----------------------------------------------------------------------------
(* generateListShareCode, lines 144-171                                    *)

\* A variant that awaits nothing of the backend.
GenerateStartUnqueried(listId) ==
  /\ genPc = "idle"
  /\ decKind = "none"
  /\ genQueries < MaxGenerations
  /\ genPc' = "fetching"
  /\ genListId' = listId
  /\ genResult' = Thrown
  /\ genStamp' = 0
  /\ genInvitation' = <<>>
  /\ UNCHANGED <<joinVars, compareVars, scanVars, badgeVars>>
  /\ UNCHANGED <<now, genQueries, decCode, decKind, decFrom, decAt, decoded>>

\* Lines 147-151: the query is issued and the function awaits it.
GenerateStart(listId) ==
  /\ genPc = "idle"
  /\ decKind = "none"
  /\ genQueries < MaxGenerations
  /\ genPc' = "fetching"
  /\ genListId' = listId
  /\ genQueries' = genQueries + 1
  /\ genResult' = Thrown
  /\ genStamp' = 0
  /\ genInvitation' = <<>>
  /\ UNCHANGED <<joinVars, compareVars, scanVars, badgeVars>>
  /\ UNCHANGED <<now, decCode, decKind, decFrom, decAt, decoded>>

\* Line 153: .single() reports an error when the request fails or when no
\* row has this id; the error is rethrown (lines 167-170).
GenerateFail ==
  /\ genPc = "fetching"
  /\ genPc' = "done"
  /\ genResult' = Thrown
  /\ UNCHANGED <<joinVars, compareVars, scanVars, badgeVars>>
  /\ UNCHANGED <<now, genListId, genStamp, genInvitation, genQueries,
                 decCode, decKind, decFrom, decAt, decoded>>

\* A variant without line 153: the query's error is not looked at.
GenerateFinishUnchecked(token, d) ==
  /\ genPc = "fetching"
  /\ genPc' = "done"
  /\ now' = now + d
  /\ genStamp' = now + d
  /\ genInvitation' = InvitationId(genListId, now, token)
  /\ genResult' = ShareCodeOf(genListId, now, now + d, token)
  /\ UNCHANGED <<joinVars, compareVars, scanVars, badgeVars>>
  /\ UNCHANGED <<genListId, genQueries, decCode, decKind, decFrom, decAt,
                 decoded>>

\* Lines 155-166: the row came back.  The clock may advance between the two
\* Date.now() calls; btoa may throw, which is rethrown.
GenerateFinish(token, d) ==
  /\ genPc = "fetching"
  /\ genListId \in ShoppingLists
  /\ genPc' = "done"
  /\ now' = now + d
  /\ genStamp' = now + d
  /\ genInvitation' = InvitationId(genListId, now, token)
  /\ genResult' = ShareCodeOf(genListId, now, now + d, token)
  /\ UNCHANGED <<joinVars, compareVars, scanVars, badgeVars>>
  /\ UNCHANGED <<genListId, genQueries, decCode, decKind, decFrom, decAt,
                 decoded>>

----------------------------------------------------------------------------
(* decodeListShareCode, lines 178-202, applied to codes of each make.      *)
(* The state keeps the record of one call: the clock stops once a code is  *)
(* decoded, and Forget clears the record for the next call.                *)

Decode(kind, code, from) ==
  /\ decCode' = code
  /\ decKind' = kind
  /\ decFrom' = from
  /\ decAt' = now
  /\ decoded' = decodeListShareCode(code, now)
  /\ UNCHANGED <<joinVars, compareVars, scanVars, badgeVars>>
  /\ UNCHANGED <<now, genPc, genListId, genResult, genStamp, genInvitation,
                 genQueries>>

\* The code generateListShareCode returned.
DecodeGenerated ==
  /\ genPc = "done"
  /\ decKind = "none"
  /\ ~genResult.threw
  /\ Decode("generated", genResult.val,
            ListShareData(genListId, genStamp, genInvitation))

\* A record of the three fields, serialised as generateListShareCode does,
\* carrying any timestamp.
WellFormedCode(rec) == btoa(JSONstringify(rec)).val

StampOffsets ==
  {-(expirationTime + 1), -expirationTime, -1, 0, 1, expirationTime}

Stamps(clock) == {clock + off : off \in StampOffsets} \cup {0, -1}

\* The record of listId and stamp, with the token "x1".
RecordOf(listId, stamp) ==
  ListShareData(listId, stamp, InvitationId(listId, stamp, <<120, 49>>))

DecodeRecord(rec) == Decode("wellFormed", WellFormedCode(rec), rec)

DecodeWellFormed(listId, stamp) == DecodeRecord(RecordOf(listId, stamp))

\* No call is recorded: a code made by hand can be decoded.
NoCall == genPc = "idle" /\ decKind = "none"

\* rec without the property key.
Without(rec, key) ==
  LET keep == SelectSeq([i \in 1..Len(rec.k) |-> i],
                        LAMBDA i : rec.k[i] # key)
  IN JObj([i \in 1..Len(keep) |-> rec.k[keep[i]]],
          [i \in 1..Len(keep) |-> rec.a[keep[i]]])

\* rec with the property key set to v.
With(rec, key, v) == PutMember(rec, key, v)

Coded(kind, codes) == {[kind |-> kind, code |-> c] : c \in codes}

\* The base64 of each text, and of the JSON text of each value.
B64Of(texts) == {btoa(t).val : t \in texts}
JsonOf(values) == {JSONstringify(v) : v \in values}

\* Texts that are not base64: illegal characters, a length of 1 mod 4,
\* padding in front.
NotBase64(good) ==
  { <<110, 111, 116, 45, 118, 97, 108, 105, 100, 45, 98, 97, 115, 101, 54, 52, 33, 33>>,           \* "not-valid-base64!!"
    Append(good, 33),                  \* good, then "!"
    Append(good, 65),                  \* good, then "A"
    <<61>> \o good }                   \* "=", then good

\* Texts that are not JSON: the empty text, proper prefixes and a suffix of
\* a JSON text, a JSON text and more.
NotJson(text) ==
  { <<>>, SubSeq(text, 1, 1), SubSeq(text, 1, Len(text) - 1),
    Append(text, 120), Tail(text) }

\* JSON values that are not objects.
NotObject(rec) ==
  { JNull, JInt(5), JInt(0), JBool(TRUE), JBool(FALSE),
    JStr(<<97, 98, 99>>), JStr(<<>>), JArr(<<>>), JArr(<<rec>>) }

\* Objects that lack one of the three properties (the last one has a
\* property "nonce" in place of "invitation").
MissingField(rec) ==
  { Without(rec, kListId), Without(rec, kTimestamp),
    Without(rec, kInvitation), Without(Without(rec, kListId), kTimestamp),
    JObj(<<>>, <<>>),
    With(Without(rec, kInvitation), <<110, 111, 110, 99, 101>>, JStr(<<120, 49>>)) }

\* Objects with the three properties, one of them falsy.
FalsyField(rec) ==
  { With(rec, kListId, JStr(<<>>)), With(rec, kTimestamp, JInt(0)),
    With(rec, kInvitation, JStr(<<>>)), With(rec, kTimestamp, JNull) }

\* Objects with the three properties truthy, one of another type:
\* timestamp "abc", "12", true; listId 7.
OtherType(rec) ==
  { With(rec, kTimestamp, JStr(<<97, 98, 99>>)),
    With(rec, kTimestamp, JStr(<<49, 50>>)),
    With(rec, kTimestamp, JBool(TRUE)), With(rec, kListId, JInt(7)) }

MalformedAround(rec, text) ==
  Coded("notBase64", NotBase64(btoa(text).val))
  \cup Coded("notJSON", B64Of(NotJson(text)) \cup {<<97, 98, 99, 100>>})
  \cup Coded("notObject", B64Of(JsonOf(NotObject(rec))))
  \cup Coded("missingField", B64Of(JsonOf(MissingField(rec))))
  \cup Coded("falsyField", B64Of(JsonOf(FalsyField(rec))))
  \cup Coded("otherType", B64Of(JsonOf(OtherType(rec))))

\* Codes that are no encoded invitation, around a record that is fresh at
\* clock, each with the way it is malformed.
MalformedCodes(clock) ==
  MalformedAround(RecordOf(L1, clock), JSONstringify(RecordOf(L1, clock)))

DecodeMalformed(input) == Decode(input.kind, input.code, JUndefined)

Forget ==
  /\ genPc = "done" \/ decKind # "none"
  /\ genPc' = "idle"
  /\ genListId' = <<>>
  /\ genResult' = Thrown
  /\ genStamp' = 0
  /\ genInvitation' = <<>>
  /\ decCode' = <<>>
  /\ decKind' = "none"
  /\ decFrom' = JUndefined
  /\ decAt' = 0
  /\ decoded' = Ok(JUndefined)
  /\ UNCHANGED <<joinVars, compareVars, scanVars, badgeVars>>
  /\ UNCHANGED <<now, genQueries>>

----------------------------------------------------------------------------
(* The clock                                                               *)

TickMs ==
  /\ decKind = "none"
  /\ (now - ClockStart) % expirationTime < MaxMsTicks
  /\ now' = now + 1
  /\ UNCHANGED <<joinVars, compareVars, scanVars, badgeVars>>
  /\ UNCHANGED <<genPc, genListId, genResult, genStamp, genInvitation,
                 genQueries, decCode, decKind, decFrom, decAt, decoded>>

TickDay ==
  /\ decKind = "none"
  /\ (now - ClockStart) \div expirationTime < MaxDayTicks
  /\ now' = now + expirationTime
  /\ UNCHANGED <<joinVars, compareVars, scanVars, badgeVars>>
  /\ UNCHANGED <<genPc, genListId, genResult, genStamp, genInvitation,
                 genQueries, decCode, decKind, decFrom, decAt, decoded>>

----------------------------------------------------------------------------
(* joinSharedList, lines 210-242, against shopping_list_members            *)

MaxCalls == 2

L2 == <<76, 50>>                  \* "L2"
Users == {"u1", "u2"}
InvitedLists == {L1, L2}
CallIds == 1 .. MaxCalls

Row(listId, userId, role) ==
  [list_id |-> listId, user_id |-> userId, role |-> role]

\* Lines 215-216: .eq('list_id', ...).eq('user_id', ...), as row numbers.
Matching(rows, listId, userId) ==
  {i \in 1 .. Len(rows) :
     rows[i].list_id = listId /\ rows[i].user_id = userId}

\* A query without the list_id filter.
SelectSingleByUser(rows, listId, userId, reqOk) ==
  IF reqOk /\ Cardinality({i \in 1 .. Len(rows) : rows[i].user_id = userId}) = 1
  THEN CHOOSE i \in 1 .. Len(rows) : rows[i].user_id = userId
  ELSE 0

\* A call that does not look for the pair's row.
SelectNothing(rows, listId, userId, reqOk) == 0

\* Lines 212-217: .single() yields the row when the request succeeds and
\* exactly one row matches; otherwise data is null (0: rows are numbered
\* from 1) and an error is reported.
SelectSingle(rows, listId, userId, reqOk) ==
  IF reqOk /\ Cardinality(Matching(rows, listId, userId)) = 1
  THEN CHOOSE i \in Matching(rows, listId, userId) : TRUE
  ELSE 0

\* Lines 226-233: the insert reports an error when the request fails, or
\* when the store enforces uniqueness and the pair already has a row.
InsertError(rows, row, reqOk, unique) ==
  \/ ~reqOk
  \/ unique /\ Matching(rows, row.list_id, row.user_id) # {}

\* Lines 228-231: the inserted row (joined_at is not modelled).
NewMember(userId, shareData) == Row(shareData.listId, userId, "editor")

\* The completion of joinSharedList by an exception.
JoinThrown == [threw |-> TRUE, val |-> FALSE]

\* A variant that reports success whatever the insert answered.
JoinInsertIgnored(error) == Ok(TRUE)

\* Lines 235-237: an insert error is thrown, otherwise true is returned.
JoinInsertResult(error) == IF error THEN JoinThrown ELSE Ok(TRUE)

\* A variant without the catch clause.
CatchRethrow(r) == r

\* Lines 238-241: the catch clause turns every exception into false.
CatchFalse(r) == IF r.threw THEN Ok(FALSE) ELSE r

\* A call that has not been made.
IdleCall ==
  [pc |-> "idle", userId |-> "", shareData |-> [listId |-> <<>>, timestamp |-> 0],
   existingMember |-> 0, result |-> Ok(FALSE),
   rowsAtStart |-> 0, rowsAtCheck |-> 0, rowsAtInsert |-> 0,
   checkOk |-> FALSE, insertOk |-> FALSE, inserted |-> FALSE, after |-> {},
   at |-> 0, insertedAt |-> 0]

\* The calls that have returned.
Returned == {c \in CallIds : calls[c].pc = "done"}

\* Lines 212-217: the existence query is issued and the function awaits it.
\* rowsAtStart and after record the table and the returned calls at entry.
JoinStart(c, userId, listId) ==
  /\ calls[c].pc = "idle"
  /\ IF c = 1 THEN TRUE ELSE calls[c - 1].pc # "idle"
  /\ calls' = [calls EXCEPT ![c] =
       [IdleCall EXCEPT
          !.pc = "check",
          !.userId = userId,
          !.shareData = [listId |-> listId, timestamp |-> now],
          !.rowsAtStart = Cardinality(Matching(members, listId, userId)),
          !.after = Returned]]
  /\ UNCHANGED <<members, uniqueConstraint>>
  /\ UNCHANGED <<codecVars, compareVars, scanVars, badgeVars>>

\* Lines 217-233: the query is answered (checkError is never read).  With a
\* row the function returns true (line 222); without one it issues the
\* insert and awaits it.
JoinChecked(c, reqOk) ==
  /\ calls[c].pc = "check"
  /\ calls' = [calls EXCEPT ![c] =
       [calls[c] EXCEPT
          !.existingMember =
             SelectSingle(members, calls[c].shareData.listId,
                          calls[c].userId, reqOk),
          !.checkOk = reqOk,
          !.rowsAtCheck =
             Cardinality(Matching(members, calls[c].shareData.listId,
                                  calls[c].userId)),
          !.pc =
             IF SelectSingle(members, calls[c].shareData.listId,
                             calls[c].userId, reqOk) # 0
             THEN "done" ELSE "insert",
          !.result =
             IF SelectSingle(members, calls[c].shareData.listId,
                             calls[c].userId, reqOk) # 0
             THEN CatchFalse(Ok(TRUE)) ELSE Ok(FALSE)]]
  /\ UNCHANGED <<members, uniqueConstraint>>
  /\ UNCHANGED <<codecVars, compareVars, scanVars, badgeVars>>

\* Lines 233-241: the insert is answered; insertedAt records the clock.
JoinInserted(c, reqOk) ==
  /\ calls[c].pc = "insert"
  /\ members' =
       IF InsertError(members, NewMember(calls[c].userId, calls[c].shareData),
                      reqOk, uniqueConstraint)
       THEN members
       ELSE Append(members, NewMember(calls[c].userId, calls[c].shareData))
  /\ calls' = [calls EXCEPT ![c] =
       [calls[c] EXCEPT
          !.pc = "done",
          !.insertOk = reqOk,
          !.insertedAt = now,
          !.rowsAtInsert =
             Cardinality(Matching(members, calls[c].shareData.listId,
                                  calls[c].userId)),
          !.inserted =
             ~InsertError(members,
                          NewMember(calls[c].userId, calls[c].shareData),
                          reqOk, uniqueConstraint),
          !.result =
             CatchFalse(JoinInsertResult(
               InsertError(members,
                           NewMember(calls[c].userId, calls[c].shareData),
                           reqOk, uniqueConstraint)))]]
  /\ UNCHANGED uniqueConstraint
  /\ UNCHANGED <<codecVars, compareVars, scanVars, badgeVars>>

----------------------------------------------------------------------------
(* A scanned code: ScanToJoinScreen.tsx, handleBarCodeScanned, decodes it  *)
(* (line 84) and passes the record to joinSharedList (line 107).           *)

\* The codes shown for scanning were generated at ClockStart.
IssuedAt == ClockStart

InvitationCode(listId) == WellFormedCode(RecordOf(listId, IssuedAt))

\* Lines 86-94: the handler returns without calling joinSharedList.
RejectedCall(userId) ==
  [IdleCall EXCEPT !.pc = "rejected", !.userId = userId, !.at = now]

\* Lines 107 and 212-217: joinSharedList is called with the record.
AcceptedCall(userId, data) ==
  [IdleCall EXCEPT
     !.pc = "check",
     !.userId = userId,
     !.shareData = [listId |-> Get(data, kListId).val.s,
                    timestamp |-> Get(data, kTimestamp).val.m],
     !.rowsAtStart =
        Cardinality(Matching(members, Get(data, kListId).val.s, userId)),
     !.after = Returned,
     !.at = now]

\* A variant that refuses a record a call was already made with.
RedeemOnce(c, userId, data) ==
  calls' = [calls EXCEPT ![c] =
    IF \/ data = JNull
       \/ \E d \in CallIds :
            /\ calls[d].pc \notin {"idle", "rejected"}
            /\ calls[d].shareData.listId = Get(data, kListId).val.s
    THEN RejectedCall(userId)
    ELSE AcceptedCall(userId, data)]

\* Lines 84-107, from the decoded record on.
Redeem(c, userId, data) ==
  calls' = [calls EXCEPT ![c] =
    IF data = JNull THEN RejectedCall(userId) ELSE AcceptedCall(userId, data)]

\* Lines 76-107: the user's device scanned the code.
RedeemCode(c, userId, code) ==
  /\ calls[c].pc = "idle"
  /\ IF c = 1 THEN TRUE ELSE calls[c - 1].pc # "idle"
  /\ Redeem(c, userId, decodeListShareCode(code, now).val)
  /\ UNCHANGED <<members, uniqueConstraint>>
  /\ UNCHANGED <<codecVars, compareVars, scanVars, badgeVars>>

InitJoin ==
  /\ members = <<Row(L1, "u1", "owner"), Row(L2, "u2", "owner")>>
  /\ uniqueConstraint \in BOOLEAN
  /\ calls = [c \in CallIds |-> IdleCall]

----------------------------------------------------------------------------
(* compareStores, CompareStoresScreen.tsx lines 75-165                     *)

MaxCompares == 2

\* number | null.
Null == [isNull |-> TRUE, v |-> 0]
Num(n) == [isNull |-> FALSE, v |-> n]

\* A row of product_prices; a date is a day number.
Obs(storeId, price, onSale, regular, date) ==
  [store_id |-> storeId, price |-> price, is_on_sale |-> onSale,
   regular_price |-> regular, date_observed |-> date]

\* A variant that keeps the rows of every store.
StorePricesOfAll(prices, storeId) == prices

\* Lines 108 and 112: prices.filter(p => p.store_id === store.id).
StorePrices(prices, storeId) ==
  SelectSeq(prices, LAMBDA p : p.store_id = storeId)

\* Lines 109-117: the first row after the sort by date_observed, latest
\* first (0: there is no row).
LatestIndex(ps) ==
  IF ps = <<>> THEN 0
  ELSE CHOOSE i \in 1 .. Len(ps) :
         \A j \in 1 .. Len(ps) :
           \/ ps[j].date_observed < ps[i].date_observed
           \/ ps[j].date_observed = ps[i].date_observed /\ i <= j

\* ToBoolean of a number | null: null and 0 are falsy.
TruthyNumber(p) == ~p.isNull /\ p.v # 0

\* Lines 120-121: latest.regular_price || latest.price.
RegularOrPrice(o) ==
  IF TruthyNumber(o.regular_price) THEN o.regular_price ELSE Num(o.price)

\* Lines 120-121: is_on_sale ? price : regular_price || price.
EffectivePrice(o) == IF o.is_on_sale THEN Num(o.price) ELSE RegularOrPrice(o)

\* Lines 107-121: the store's price of a product, null without a row.
PriceAt(ps) == IF ps = <<>> THEN Null ELSE EffectivePrice(ps[LatestIndex(ps)])

StorePrice(prices, storeId) == PriceAt(StorePrices(prices, storeId))

\* Line 122: store1Price && store2Price ? store1Price - store2Price : null.
PriceDiff(p1, p2) ==
  IF TruthyNumber(p1) /\ TruthyNumber(p2) THEN Num(p1.v - p2.v) ELSE Null

\* Lines 102-130: the row of one list item.
Comparison(item, s1, s2) ==
  [productName |-> item.name,
   store1Price |-> StorePrice(item.product_prices, s1),
   store2Price |-> StorePrice(item.product_prices, s2),
   priceDiff |-> PriceDiff(StorePrice(item.product_prices, s1),
                           StorePrice(item.product_prices, s2))]

PriceComparisons(items, s1, s2) ==
  [i \in 1 .. Len(items) |-> Comparison(items[i], s1, s2)]

\* A variant that keeps the rows with a price at either store.
ValidComparisonsEither(cs) ==
  SelectSeq(cs, LAMBDA c : ~c.store1Price.isNull \/ ~c.store2Price.isNull)

\* Lines 135-137.
ValidComparisons(cs) ==
  SelectSeq(cs, LAMBDA c : ~c.store1Price.isNull /\ ~c.store2Price.isNull)

\* Lines 141-142: reduce((sum, c) => sum + c.storeNPrice, 0).
RECURSIVE SumStore1(_)
SumStore1(cs) ==
  IF cs = <<>> THEN 0 ELSE Head(cs).store1Price.v + SumStore1(Tail(cs))

RECURSIVE SumStore2(_)
SumStore2(cs) ==
  IF cs = <<>> THEN 0 ELSE Head(cs).store2Price.v + SumStore2(Tail(cs))

\* Line 148: ((store1Total - store2Total) / store1Total) * 100, kept as the
\* fraction num / den; a division by 0 yields NaN or an infinity.
NoSavings == [isNull |-> TRUE, kind |-> "null", num |-> 0, den |-> 1]

\* A variant that divides by store2Total.
SavingsOverStore2(t1, t2) ==
  IF t2 # 0
  THEN [isNull |-> FALSE, kind |-> "finite", num |-> (t1 - t2) * 100,
        den |-> t2]
  ELSE [isNull |-> FALSE, kind |-> "NaN", num |-> 0, den |-> 1]

Savings(t1, t2) ==
  IF t1 # 0
  THEN [isNull |-> FALSE, kind |-> "finite", num |-> (t1 - t2) * 100,
        den |-> t1]
  ELSE [isNull |-> FALSE,
        kind |-> IF t2 = 0 THEN "NaN"
                 ELSE IF t2 > 0 THEN "-Infinity" ELSE "Infinity",
        num |-> 0, den |-> 1]

\* Lines 152-154 and 159; null before the first comparison (line 42).
NoText == [kind |-> "null", valid |-> 0, total |-> 0]

\* A variant reporting the two counts the other way round.
BasedOnSwapped(valid, total) ==
  [kind |-> "basedOn", valid |-> total, total |-> valid]

BasedOn(valid, total) == [kind |-> "basedOn", valid |-> valid, total |-> total]
NoProducts == [kind |-> "noProducts", valid |-> 0, total |-> 0]

\* A variant without the branch of lines 155-160.
SummaryOfTotals(cs, valid) ==
  [comparisons |-> cs,
   store1Total |-> Num(SumStore1(valid)),
   store2Total |-> Num(SumStore2(valid)),
   savingsPercentage |-> Savings(SumStore1(valid), SumStore2(valid)),
   savingsText |-> BasedOn(Len(valid), Len(cs))]

\* Lines 139-160: what the screen is set to, from the comparison rows and
\* the rows with both prices.
Summary(cs, valid) ==
  IF Len(valid) > 0
  THEN [comparisons |-> cs,
        store1Total |-> Num(SumStore1(valid)),
        store2Total |-> Num(SumStore2(valid)),
        savingsPercentage |-> Savings(SumStore1(valid), SumStore2(valid)),
        savingsText |-> BasedOn(Len(valid), Len(cs))]
  ELSE [comparisons |-> cs,
        store1Total |-> Null,
        store2Total |-> Null,
        savingsPercentage |-> NoSavings,
        savingsText |-> NoProducts]

Shown(cs) == Summary(cs, ValidComparisons(cs))

\* Lines 286-295: the banner is rendered when savingsPercentage is not
\* null, and names store 2 as cheaper when savingsPercentage > 0 and
\* store 1 otherwise (a comparison with NaN is false).
IsPositive(sp) ==
  \/ sp.kind = "Infinity"
  \/ sp.kind = "finite" /\ sp.num * sp.den > 0

BannerCheaper(sp) ==
  IF sp.isNull THEN "hidden"
  ELSE IF IsPositive(sp) THEN "store2" ELSE "store1"

\* The stores that can be selected, and shopping_list_items of the list
\* with the price rows of its products: milk with one of several histories
\* at each store, and possibly bread.
Stores == {"s1", "s2"}

MilkAtS1 ==
  {<<>>,
   <<Obs("s1", 5, FALSE, Null, 1)>>,
   <<Obs("s1", 0, TRUE, Num(4), 1)>>,
   <<Obs("s1", 5, FALSE, Num(0), 1)>>,
   <<Obs("s1", 5, FALSE, Num(4), 1)>>,
   <<Obs("s1", 3, TRUE, Num(4), 1), Obs("s1", 6, FALSE, Null, 2)>>,
   <<Obs("s1", 6, FALSE, Null, 2), Obs("s1", 3, TRUE, Num(4), 1)>>}

MilkAtS2 ==
  {<<>>,
   <<Obs("s2", 3, FALSE, Null, 1)>>,
   <<Obs("s2", 0, FALSE, Null, 1)>>,
   <<Obs("s2", 2, TRUE, Num(3), 2), Obs("s2", 9, FALSE, Null, 1)>>}

Item(name, prices) == [name |-> name, product_prices |-> prices]

BreadItems ==
  {<<>>,
   <<Item("bread", <<Obs("s1", 2, FALSE, Null, 1),
                     Obs("s2", 2, FALSE, Null, 1)>>)>>,
   <<Item("bread", <<Obs("s1", 2, FALSE, Null, 1)>>)>>}

Catalogs ==
  {<<>>} \cup
  {<<Item("milk", h1 \o <<Obs("s3", 1, FALSE, Null, 3)>> \o h2)>> \o bread :
     h1 \in MilkAtS1, h2 \in MilkAtS2, bread \in BreadItems}

CompareIds == 1 .. MaxCompares

IdleCompare == [pc |-> "idle", store1 |-> "none", store2 |-> "none"]
DoneCompare == [pc |-> "done", store1 |-> "none", store2 |-> "none"]
FailedCompare == [pc |-> "failed", store1 |-> "none", store2 |-> "none"]

\* Lines 167-177: handleStoreSelect; a store's suggestions are shown while
\* none is selected (lines 185-227 and 233-275).
SelectStore(store, isStore1) ==
  /\ IF isStore1 THEN store1 = "none" ELSE store2 = "none"
  /\ store1' = IF isStore1 THEN store ELSE store1
  /\ store2' = IF isStore1 THEN store2 ELSE store
  /\ UNCHANGED <<listItems, comparisons, store1Total, store2Total,
                 savingsPercentage, savingsText, compares, alert, shownFor,
                 replacedTotal>>
  /\ UNCHANGED <<codecVars, joinVars, scanVars, badgeVars>>

\* Lines 195 and 243: the Change button, setStore1(null) / setStore2(null).
ChangeStore(isStore1) ==
  /\ IF isStore1 THEN store1 # "none" ELSE store2 # "none"
  /\ store1' = IF isStore1 THEN "none" ELSE store1
  /\ store2' = IF isStore1 THEN store2 ELSE "none"
  /\ UNCHANGED <<listItems, comparisons, store1Total, store2Total,
                 savingsPercentage, savingsText, compares, alert, shownFor,
                 replacedTotal>>
  /\ UNCHANGED <<codecVars, joinVars, scanVars, badgeVars>>

\* Lines 76-79: a store is missing; an alert, and nothing else.
CompareUnselected ==
  /\ store1 = "none" \/ store2 = "none"
  /\ alert' = "selectBoth"
  /\ UNCHANGED <<store1, store2, listItems, comparisons, store1Total,
                 store2Total, savingsPercentage, savingsText, compares,
                 shownFor,
                 replacedTotal>>
  /\ UNCHANGED <<codecVars, joinVars, scanVars, badgeVars>>

\* A variant without the test of lines 76-79.
CompareStartUnguarded(k) ==
  /\ compares[k].pc = "idle"
  /\ IF k = 1 THEN TRUE ELSE compares[k - 1].pc # "idle"
  /\ compares' = [compares EXCEPT ![k] =
       [pc |-> "fetching", store1 |-> store1, store2 |-> store2]]
  /\ UNCHANGED <<store1, store2, listItems, comparisons, store1Total,
                 store2Total, savingsPercentage, savingsText, alert,
                 shownFor, replacedTotal>>
  /\ UNCHANGED <<codecVars, joinVars, scanVars, badgeVars>>

\* Lines 83-98: the query is issued and the function awaits it; its
\* closure holds the stores selected when it was called.
CompareStart(k) ==
  /\ store1 # "none" /\ store2 # "none"
  /\ compares[k].pc = "idle"
  /\ IF k = 1 THEN TRUE ELSE compares[k - 1].pc # "idle"
  /\ compares' = [compares EXCEPT ![k] =
       [pc |-> "fetching", store1 |-> store1, store2 |-> store2]]
  /\ UNCHANGED <<store1, store2, listItems, comparisons, store1Total,
                 store2Total, savingsPercentage, savingsText, alert,
                 shownFor,
                 replacedTotal>>
  /\ UNCHANGED <<codecVars, joinVars, scanVars, badgeVars>>

\* A variant whose catch clause clears the screen.
CompareFailClears(k) ==
  /\ compares[k].pc = "fetching"
  /\ compares' = [compares EXCEPT ![k] = FailedCompare]
  /\ alert' = "failed"
  /\ comparisons' = <<>>
  /\ store1Total' = Null
  /\ store2Total' = Null
  /\ savingsPercentage' = NoSavings
  /\ savingsText' = NoProducts
  /\ UNCHANGED <<store1, store2, listItems, shownFor, replacedTotal>>
  /\ UNCHANGED <<codecVars, joinVars, scanVars, badgeVars>>

\* Lines 100 and 161-164: the query failed; an alert, and nothing else.
CompareFail(k) ==
  /\ compares[k].pc = "fetching"
  /\ compares' = [compares EXCEPT ![k] = FailedCompare]
  /\ alert' = "failed"
  /\ UNCHANGED <<store1, store2, listItems, comparisons, store1Total,
                 store2Total, savingsPercentage, savingsText, shownFor,
                 replacedTotal>>
  /\ UNCHANGED <<codecVars, joinVars, scanVars, badgeVars>>

\* The screen is set to a summary.
Show(summary) ==
  /\ comparisons' = summary.comparisons
  /\ store1Total' = summary.store1Total
  /\ store2Total' = summary.store2Total
  /\ savingsPercentage' = summary.savingsPercentage
  /\ savingsText' = summary.savingsText

\* Lines 102-160: the rows came back.
CompareFinish(k) ==
  /\ compares[k].pc = "fetching"
  /\ compares' = [compares EXCEPT ![k] = DoneCompare]
  /\ Show(Shown(PriceComparisons(listItems, compares[k].store1,
                                 compares[k].store2)))
  /\ shownFor' = [store1 |-> compares[k].store1, store2 |-> compares[k].store2]
  /\ replacedTotal' = store1Total
  /\ UNCHANGED <<store1, store2, listItems, alert>>
  /\ UNCHANGED <<codecVars, joinVars, scanVars, badgeVars>>

\* Lines 34-42: the screen as mounted.
InitCompare ==
  /\ store1 = "none"
  /\ store2 = "none"
  /\ comparisons = <<>>
  /\ store1Total = Null
  /\ store2Total = Null
  /\ savingsPercentage = NoSavings
  /\ savingsText = NoText
  /\ compares = [k \in CompareIds |-> IdleCompare]
  /\ alert = "none"
  /\ shownFor = [store1 |-> "none", store2 |-> "none"]
  /\ replacedTotal = Null

----------------------------------------------------------------------------
(* ScanToJoinScreen.tsx: handleBarCodeScanned, lines 76-140, and the render *)
(* of lines 172-180 and 258-265.  The handler and the camera's prop read    *)
(* scanned and processing as the last render bound them (view); the setters *)
(* change the state, which the next render binds.                           *)

\* A code of list L1 that expired a millisecond before ClockStart.
ExpiredCode == WellFormedCode(RecordOf(L1, IssuedAt - expirationTime - 1))

ScanCodes == {InvitationCode(L1), ExpiredCode}

\* A variant that schedules no timer.
SetTimeoutDropped(n) == n

\* Lines 90-92, 101-103, 127-129 and 136-138: setTimeout(..., 2000).
SetTimeout(n) == n + 1

\* Lines 87-92, 98-103, 124-129 and 133-138: the alert, setProcessing(false),
\* the instructions and the timer that will reset scanned.
ScanFailed(kind) ==
  /\ outcome' = kind
  /\ processing' = FALSE
  /\ scanInstructions' = "Try scanning again"
  /\ timers' = SetTimeout(timers)

\* Lines 79-107, once the guard of line 78 is passed: a code that does not
\* decode, or no user, ends the handler; otherwise joinSharedList is called
\* and awaited.
HandleScan(c, data) ==
  /\ scanned' = TRUE
  /\ IF data = JNull \/ user = ""
     THEN /\ ScanFailed(IF data = JNull THEN "invalid" ELSE "noUser")
          /\ calls' = [calls EXCEPT ![c] = RejectedCall(user)]
          /\ UNCHANGED awaiting
     ELSE /\ Redeem(c, user, data)
          /\ processing' = TRUE
          /\ scanInstructions' = "Processing..."
          /\ awaiting' = awaiting \cup {c}
          /\ outcome' = "pending"
          /\ UNCHANGED timers

\* Lines 76-107 and 179: the camera delivers a barcode to the handler of the
\* last render, which is attached while that render's scanned is false and
\* returns at once when that render's scanned or processing is true.
BarCodeScanned(c, code) ==
  /\ ~view.scanned
  /\ calls[c].pc = "idle"
  /\ IF c = 1 THEN TRUE ELSE calls[c - 1].pc # "idle"
  /\ IF view.scanned \/ view.processing
     THEN UNCHANGED <<calls, scanned, processing, scanInstructions, timers,
                      awaiting, outcome>>
     ELSE HandleScan(c, decodeListShareCode(code, now).val)
  /\ UNCHANGED <<members, uniqueConstraint, user, view>>
  /\ UNCHANGED <<codecVars, compareVars, badgeVars>>

\* Lines 107-139: joinSharedList has returned to the handler that awaited
\* it; an exception would reach the catch clause of lines 131-139.
JoinResumed(c) ==
  /\ c \in awaiting
  /\ calls[c].pc = "done"
  /\ awaiting' = awaiting \ {c}
  /\ IF calls[c].result.threw THEN ScanFailed("exception")
     ELSE IF calls[c].result.val
     THEN /\ outcome' = "success"
          /\ UNCHANGED <<processing, scanInstructions, timers>>
     ELSE ScanFailed("failed")
  /\ UNCHANGED <<user, scanned, view>>
  /\ UNCHANGED <<codecVars, joinVars, compareVars, badgeVars>>

\* Lines 90-92: a timer fires, setScanned(false).
TimerFired ==
  /\ timers > 0
  /\ timers' = timers - 1
  /\ scanned' = FALSE
  /\ UNCHANGED <<user, processing, scanInstructions, view, awaiting, outcome>>
  /\ UNCHANGED <<codecVars, joinVars, compareVars, badgeVars>>

\* Lines 258-265: the Scan Again button, rendered when scanned && !processing.
ScanAgain ==
  /\ view.scanned /\ ~view.processing
  /\ scanned' = FALSE
  /\ UNCHANGED <<user, processing, scanInstructions, view, timers, awaiting,
                 outcome>>
  /\ UNCHANGED <<codecVars, joinVars, compareVars, badgeVars>>

\* Lines 43-44: the component function runs again and binds the state.
Render ==
  /\ view # [scanned |-> scanned, processing |-> processing]
  /\ view' = [scanned |-> scanned, processing |-> processing]
  /\ UNCHANGED <<user, scanned, processing, scanInstructions, timers,
                 awaiting, outcome>>
  /\ UNCHANGED <<codecVars, joinVars, compareVars, badgeVars>>

\* Lines 40-45: the screen as mounted.
InitScan ==
  /\ user \in {"", "u2"}
  /\ scanned = FALSE
  /\ processing = FALSE
  /\ scanInstructions = "Scan a list QR code to join"
  /\ view = [scanned |-> FALSE, processing |-> FALSE]
  /\ timers = 0
  /\ awaiting = {}
  /\ outcome = "none"

----------------------------------------------------------------------------
(* NotificationCountManager and updateUnreadNotificationCount, lines      *)
(* 157-196 of the tab navigator (src/unnamed/part_012)                     *)

MaxFetches == 2
MaxUnseen == 2

FetchIds == 1 .. MaxFetches
ListenerIds == {"badge", "screen"}

IdleFetch == [pc |-> "idle", count |-> Null]

\* Line 191: count || 0.
CountOrZero(c) == IF TruthyNumber(c) THEN c.v ELSE 0

\* Lines 161-164 and 174-176: setCount, which calls every listener.
SetCount(newCount) ==
  /\ count' = newCount
  /\ heard' = [l \in ListenerIds |->
                 IF l \in listeners THEN newCount ELSE heard[l]]

\* Lines 166-171: addListener calls the new listener with the count.
AddListener(l) ==
  /\ l \notin listeners
  /\ listeners' = listeners \cup {l}
  /\ heard' = [heard EXCEPT ![l] = count]
  /\ UNCHANGED <<unseen, count, fetches>>
  /\ UNCHANGED <<codecVars, joinVars, compareVars, scanVars>>

\* Line 170: the function addListener returned.
RemoveListener(l) ==
  /\ l \in listeners
  /\ listeners' = listeners \ {l}
  /\ UNCHANGED <<unseen, count, heard, fetches>>
  /\ UNCHANGED <<codecVars, joinVars, compareVars, scanVars>>

\* A notification of the user is inserted, deleted or marked as seen.
NotificationChanged(n) ==
  /\ n # unseen
  /\ unseen' = n
  /\ UNCHANGED <<count, listeners, heard, fetches>>
  /\ UNCHANGED <<codecVars, joinVars, compareVars, scanVars>>

\* Lines 179-187: without a user id the function returns; otherwise the
\* count query is issued and awaited.
UpdateStart(f, userId) ==
  /\ fetches[f].pc = "idle"
  /\ IF f = 1 THEN TRUE ELSE fetches[f - 1].pc # "idle"
  /\ fetches' = IF userId = "" THEN fetches
                ELSE [fetches EXCEPT ![f].pc = "fetching"]
  /\ UNCHANGED <<unseen, count, listeners, heard>>
  /\ UNCHANGED <<codecVars, joinVars, compareVars, scanVars>>

\* Lines 183-187: the store counts the rows for the query.
UpdateCounted(f) ==
  /\ fetches[f].pc = "fetching"
  /\ fetches' = [fetches EXCEPT ![f] = [pc |-> "counted", count |-> Num(unseen)]]
  /\ UNCHANGED <<unseen, count, listeners, heard>>
  /\ UNCHANGED <<codecVars, joinVars, compareVars, scanVars>>

\* Lines 189-192: the response has arrived.
UpdateFinish(f) ==
  /\ fetches[f].pc = "counted"
  /\ fetches' = [fetches EXCEPT ![f].pc = "done"]
  /\ SetCount(CountOrZero(fetches[f].count))
  /\ UNCHANGED <<unseen, listeners>>
  /\ UNCHANGED <<codecVars, joinVars, compareVars, scanVars>>

\* Lines 189-195: the query failed; the error is logged.
UpdateFail(f) ==
  /\ fetches[f].pc \in {"fetching", "counted"}
  /\ fetches' = [fetches EXCEPT ![f] = [pc |-> "failed", count |-> Null]]
  /\ UNCHANGED <<unseen, count, listeners, heard>>
  /\ UNCHANGED <<codecVars, joinVars, compareVars, scanVars>>

\* Lines 158-159.
InitBadge ==
  /\ unseen \in 0 .. MaxUnseen
  /\ count = 0
  /\ listeners = {}
  /\ heard = [l \in ListenerIds |-> -1]
  /\ fetches = [f \in FetchIds |-> IdleFetch]

----------------------------------------------------------------------------
(* The specifications                                                      *)

vars == <<codecVars, joinVars, compareVars, scanVars, badgeVars>>

InitCodecVars ==
  /\ now = ClockStart
  /\ genPc = "idle"
  /\ genListId = <<>>
  /\ genResult = Thrown
  /\ genStamp = 0
  /\ genInvitation = <<>>
  /\ genQueries = 0
  /\ decCode = <<>>
  /\ decKind = "none"
  /\ decFrom = JUndefined
  /\ decAt = 0
  /\ decoded = Ok(JUndefined)

\* The share code: the membership store plays no part.
InitCodec ==
  /\ InitCodecVars
  /\ InitJoin
  /\ uniqueConstraint
  /\ InitCompare
  /\ listItems = <<>>
  /\ InitScan
  /\ user = "u2"
  /\ InitBadge
  /\ unseen = 0

NextCodec ==
  \/ \E listId \in GenListIds : GenerateStart(listId)
  \/ GenerateFail
  \/ \E token \in RandomTokens, d \in {0, 1} : GenerateFinish(token, d)
  \/ DecodeGenerated
  \/ /\ NoCall
     /\ \E listId \in {L1, LQuote}, stamp \in Stamps(now) :
          DecodeWellFormed(listId, stamp)
  \/ /\ NoCall
     /\ \E input \in MalformedCodes(now) : DecodeMalformed(input)
  \/ Forget
  \/ TickMs
  \/ TickDay

SpecCodec == InitCodec /\ [][NextCodec]_vars

\* Joining: any number of users' calls, interleaved at their awaits.
InitJoining ==
  /\ InitCodecVars
  /\ InitJoin
  /\ InitCompare
  /\ listItems = <<>>
  /\ InitScan
  /\ user = "u2"
  /\ InitBadge
  /\ unseen = 0

NextJoin ==
  \/ \E c \in CallIds, userId \in Users, listId \in InvitedLists :
       JoinStart(c, userId, listId)
  \/ \E c \in CallIds, reqOk \in BOOLEAN : JoinChecked(c, reqOk)
  \/ \E c \in CallIds, reqOk \in BOOLEAN : JoinInserted(c, reqOk)

SpecJoin == InitJoining /\ [][NextJoin]_vars

\* No joinSharedList call is awaiting the store.
NoneAwaiting == \A c \in CallIds : calls[c].pc \notin {"check", "insert"}

\* Redeeming: the users scan the code of list L1 issued at ClockStart, as
\* the clock runs, against a store that answers every request.  Only the
\* decoding reads the clock, so it advances between the calls' steps.
NextRedeem ==
  \/ \E c \in CallIds, userId \in Users :
       RedeemCode(c, userId, InvitationCode(L1))
  \/ \E c \in CallIds : JoinChecked(c, TRUE)
  \/ \E c \in CallIds : JoinInserted(c, TRUE)
  \/ NoneAwaiting /\ TickMs
  \/ NoneAwaiting /\ TickDay

SpecRedeem == InitJoining /\ [][NextRedeem]_vars

\* Redeeming with slow requests: a user scans the code of list L1 and the
\* days pass while joinSharedList awaits the store.
NextRedeemLate ==
  \/ \E c \in CallIds : RedeemCode(c, "u2", InvitationCode(L1))
  \/ \E c \in CallIds : JoinChecked(c, TRUE)
  \/ \E c \in CallIds : JoinInserted(c, TRUE)
  \/ NoneAwaiting /\ TickMs
  \/ TickDay

SpecRedeemLate == InitJoining /\ [][NextRedeemLate]_vars

\* Comparing: selections and compareStores calls, interleaved at the await,
\* over each content of the list.
InitComparing ==
  /\ InitCodecVars
  /\ InitJoin
  /\ uniqueConstraint
  /\ InitCompare
  /\ listItems \in Catalogs
  /\ InitScan
  /\ user = "u2"
  /\ InitBadge
  /\ unseen = 0

NextCompare ==
  \/ \E store \in Stores, isStore1 \in BOOLEAN : SelectStore(store, isStore1)
  \/ \E isStore1 \in BOOLEAN : ChangeStore(isStore1)
  \/ CompareUnselected
  \/ \E k \in CompareIds : CompareStart(k)
  \/ \E k \in CompareIds : CompareFail(k)
  \/ \E k \in CompareIds : CompareFinish(k)

SpecCompare == InitComparing /\ [][NextCompare]_vars

\* Scanning: barcodes reach the screen's handler, joinSharedList runs
\* against a store that answers the existence query, timers fire and the
\* screen renders.
InitScanning ==
  /\ InitCodecVars
  /\ InitJoin
  /\ InitCompare
  /\ listItems = <<>>
  /\ InitScan
  /\ InitBadge
  /\ unseen = 0

NextScan ==
  \/ \E c \in CallIds, code \in ScanCodes : BarCodeScanned(c, code)
  \/ \E c \in CallIds : JoinChecked(c, TRUE)
  \/ \E c \in CallIds, reqOk \in BOOLEAN : JoinInserted(c, reqOk)
  \/ \E c \in CallIds : JoinResumed(c)
  \/ TimerFired
  \/ ScanAgain
  \/ Render

SpecScan == InitScanning /\ [][NextScan]_vars

\* A timer that was set fires, and a changed state is rendered.
SpecScanLive == SpecScan /\ WF_vars(TimerFired) /\ WF_vars(Render)

\* The badge: listeners come and go, notifications change and the count is
\* fetched by calls interleaved at their await.
InitCounting ==
  /\ InitCodecVars
  /\ InitJoin
  /\ uniqueConstraint
  /\ InitCompare
  /\ listItems = <<>>
  /\ InitScan
  /\ user = "u2"
  /\ InitBadge

NextBadge ==
  \/ \E l \in ListenerIds : AddListener(l)
  \/ \E l \in ListenerIds : RemoveListener(l)
  \/ \E n \in 0 .. MaxUnseen : NotificationChanged(n)
  \/ \E f \in FetchIds, userId \in {"", "u2"} : UpdateStart(f, userId)
  \/ \E f \in FetchIds : UpdateCounted(f)
  \/ \E f \in FetchIds : UpdateFinish(f)
  \/ \E f \in FetchIds : UpdateFail(f)

SpecBadge == InitCounting /\ [][NextBadge]_vars

----------------------------------------------------------------------------
(* Properties of the share code                                            *)

\* The timestamp a well-formed code was serialised with.
StampOf(rec) == Get(rec, kTimestamp).val.m

\* C1: a code that generateListShareCode returned for a non-empty listId,
\* decoded with no clock advance, yields a non-null record whose listId is
\* the argument, whose timestamp is the clock of the encoding (age 0) and
\* whose invitation identifier is the one generated.
C1_RoundTrip ==
  (decKind = "generated" /\ Len(genListId) > 0 /\ decAt = genStamp) =>
    /\ ~decoded.threw
    /\ decoded.val.t = "obj"
    /\ Get(decoded.val, kListId).val = JStr(genListId)
    /\ Get(decoded.val, kTimestamp).val = JInt(genStamp)
    /\ decAt - Get(decoded.val, kTimestamp).val.m = 0
    /\ Get(decoded.val, kInvitation).val = JStr(genInvitation)

\* The list id with a quote and a backslash made the round trip.
C1_Witness ==
  /\ decKind = "generated"
  /\ decAt = genStamp
  /\ genListId = LQuote
  /\ decoded = Ok(ListShareData(LQuote, genStamp, genInvitation))

\* C2: a code that is not base64, not JSON, not an object, or an object
\* without one of the three properties decodes to null, and the call does
\* not throw.
C2_MalformedIsNull ==
  decKind \in {"notBase64", "notJSON", "notObject", "missingField"} =>
    decoded = Ok(JNull)

\* JSON null was decoded: the TypeError of reading its property was caught.
C2_Witness ==
  /\ decKind = "notObject"
  /\ JSONparse(atob(decCode).val) = Ok(JNull)
  /\ DecodeTry(decCode, decAt).threw
  /\ decoded = Ok(JNull)

\* C3: a well-formed code whose timestamp is more than 24 hours before the
\* clock decodes to null, as a malformed code does.
C3_ExpiredIsNull ==
  (/\ decKind \in {"wellFormed", "generated"}
   /\ decAt - StampOf(decFrom) > expirationTime) =>
    decoded = Ok(JNull)

\* A code one millisecond past its 24 hours was decoded.
C3_Witness ==
  /\ decKind = "wellFormed"
  /\ StampOf(decFrom) > 0
  /\ decAt - StampOf(decFrom) = expirationTime + 1
  /\ decoded = Ok(JNull)

----------------------------------------------------------------------------
(* Properties of joinSharedList                                            *)

\* The rows of a call's pair now in the table.
RowsOf(c) ==
  Cardinality(Matching(members, calls[c].shareData.listId, calls[c].userId))

SamePair(c, d) ==
  /\ calls[c].userId = calls[d].userId
  /\ calls[c].shareData.listId = calls[d].shareData.listId

\* Every request of a returned call was answered by the store.
Answered(c) ==
  /\ calls[c].pc = "done"
  /\ calls[c].checkOk
  /\ calls[c].existingMember = 0 => calls[c].insertOk

\* No call but c and d has been made for their pair.
OnlyCalls(c, d) ==
  \A e \in CallIds \ {c, d} : calls[e].pc = "idle" \/ ~SamePair(e, c)

\* C4: from a table without a row of the pair, two calls for the same user
\* and list, the second made after the first returned and every request
\* answered, both return true and leave exactly one row of the pair.
C4_SequentialJoins ==
  \A c, d \in CallIds :
    (/\ c # d
     /\ SamePair(c, d)
     /\ Answered(c) /\ Answered(d)
     /\ c \in calls[d].after
     /\ calls[c].rowsAtStart = 0
     /\ OnlyCalls(c, d)) =>
      /\ calls[c].result = Ok(TRUE)
      /\ calls[d].result = Ok(TRUE)
      /\ RowsOf(c) = 1

\* u2 joined L1 twice, one call after the other: the second found the row.
C4_Witness ==
  \E c, d \in CallIds :
    /\ c # d /\ SamePair(c, d)
    /\ Answered(c) /\ Answered(d)
    /\ c \in calls[d].after
    /\ calls[c].rowsAtStart = 0
    /\ calls[c].inserted
    /\ calls[d].existingMember # 0
    /\ calls[d].result = Ok(TRUE)
    /\ RowsOf(c) = 1

\* C5: a call by a user who has a row of the list when the call is made
\* returns true, inserts no row and leaves the existing rows as they were.
C5_MemberJoinUnchanged ==
  \A c \in Returned :
    calls[c].rowsAtStart = 1 =>
      /\ calls[c].result = Ok(TRUE)
      /\ ~calls[c].inserted
      /\ RowsOf(c) = 1
      /\ members[1] = Row(L1, "u1", "owner")
      /\ members[2] = Row(L2, "u2", "owner")

\* C6: when the insert of a call is answered, either the store accepted it,
\* exactly one row (list, user, editor) was added and the call returns
\* true, or it did not, no row was added and the call returns false; the
\* call does not throw.
C6_InsertOutcome ==
  [][\A c \in CallIds :
       (calls[c].pc = "insert" /\ calls'[c].pc = "done") =>
         /\ ~calls'[c].result.threw
         /\ IF /\ calls'[c].insertOk
               /\ uniqueConstraint => RowsOf(c) = 0
            THEN /\ members' =
                      Append(members,
                             Row(calls[c].shareData.listId, calls[c].userId,
                                 "editor"))
                 /\ calls'[c].result = Ok(TRUE)
            ELSE /\ members' = members
                 /\ calls'[c].result = Ok(FALSE)]_vars

\* A non-member's insert failed: no row of the pair, and false returned.
C6_Witness ==
  \E c \in Returned :
    /\ calls[c].rowsAtStart = 0
    /\ calls[c].checkOk
    /\ calls[c].existingMember = 0
    /\ ~calls[c].insertOk
    /\ calls[c].result = Ok(FALSE)
    /\ RowsOf(c) = 0

\* C7, as stated: the table never holds two rows of one pair.
C7_AtMostOneRow ==
  \A listId \in InvitedLists, userId \in Users :
    Cardinality(Matching(members, listId, userId)) <= 1

\* C7, amended: a store that enforces uniqueness never holds two rows of a
\* pair; without the constraint, a call adds a row to a pair that has one
\* only if its existence query failed, matched more than one row, or was
\* answered before another call inserted the pair's row.
C7_DuplicateOnlyByRace ==
  /\ uniqueConstraint => C7_AtMostOneRow
  /\ \A c \in Returned :
       (calls[c].inserted /\ calls[c].rowsAtInsert >= 1) =>
         /\ ~uniqueConstraint
         /\ \/ ~calls[c].checkOk
            \/ calls[c].rowsAtCheck > 1
            \/ calls[c].rowsAtInsert > calls[c].rowsAtCheck

\* Under the constraint two overlapping calls both tried to insert the
\* pair's first row, and the table holds one.
C7_Witness ==
  \E c, d \in Returned :
    /\ c # d /\ SamePair(c, d)
    /\ uniqueConstraint
    /\ calls[c].checkOk /\ calls[d].checkOk
    /\ calls[c].rowsAtCheck = 0 /\ calls[d].rowsAtCheck = 0
    /\ calls[c].insertOk /\ calls[d].insertOk
    /\ RowsOf(c) = 1

\* Two calls for one pair, neither made after the other returned, all of
\* whose requests the uniqueness-enforcing store answered.
ConcurrentPair(c, d) ==
  /\ c # d
  /\ SamePair(c, d)
  /\ uniqueConstraint
  /\ Answered(c) /\ Answered(d)
  /\ c \notin calls[d].after
  /\ d \notin calls[c].after
  /\ OnlyCalls(c, d)

\* C8, as stated: such calls end with one row of the pair and both true.
C8_BothTrue ==
  \A c, d \in CallIds :
    ConcurrentPair(c, d) =>
      /\ RowsOf(c) = 1
      /\ calls[c].result = Ok(TRUE)
      /\ calls[d].result = Ok(TRUE)

\* C8, amended: such calls end with exactly one row of the pair and at
\* least one of them returns true; a call returns false exactly when the
\* constraint rejected its insert.
C8_OneRowOneTrue ==
  \A c, d \in CallIds :
    ConcurrentPair(c, d) =>
      /\ RowsOf(c) = 1
      /\ calls[c].result = Ok(TRUE) \/ calls[d].result = Ok(TRUE)
      /\ \A e \in {c, d} :
           calls[e].result = Ok(FALSE) <=>
             (calls[e].existingMember = 0 /\ calls[e].rowsAtInsert >= 1)

\* The race: both calls saw no row, one insert was rejected.
C8_Witness ==
  \E c, d \in CallIds :
    /\ ConcurrentPair(c, d)
    /\ calls[c].rowsAtStart = 0
    /\ calls[c].result = Ok(TRUE)
    /\ calls[d].result = Ok(FALSE)
    /\ RowsOf(c) = 1

----------------------------------------------------------------------------
(* Properties of compareStores                                             *)

\* The price rows of the i-th list item at a store of the call shown.
RowsAt(i, storeId) == StorePrices(listItems[i].product_prices, storeId)

\* C9: in the rows shown, a product with an observation at both stores of
\* the call has priceDiff = store1Price - store2Price, whatever the two
\* prices are, 0 included.
C9_PriceDiffExact ==
  \A i \in 1 .. Len(comparisons) :
    (/\ RowsAt(i, shownFor.store1) # <<>>
     /\ RowsAt(i, shownFor.store2) # <<>>) =>
      comparisons[i].priceDiff =
        Num(comparisons[i].store1Price.v - comparisons[i].store2Price.v)

\* The effective price of an observation as the specification states it.
StatedPrice(o) ==
  IF o.is_on_sale THEN Num(o.price)
  ELSE IF ~o.regular_price.isNull THEN o.regular_price
  ELSE Num(o.price)

OfStores(items, s1, s2) ==
  [i \in 1 .. Len(items) |->
     Item(items[i].name,
          SelectSeq(items[i].product_prices,
                    LAMBDA p : p.store_id = s1 \/ p.store_id = s2))]

\* price comes from a row of the store that no row of the store is later
\* than; it is null when the store has no row.
IsLatestPrice(ps, storeId, price) ==
  IF \E j \in 1 .. Len(ps) : ps[j].store_id = storeId
  THEN \E j \in 1 .. Len(ps) :
         /\ ps[j].store_id = storeId
         /\ \A k \in 1 .. Len(ps) :
              ps[k].store_id = storeId =>
                ps[k].date_observed <= ps[j].date_observed
         /\ price = EffectivePrice(ps[j])
  ELSE price = Null

\* What the screen shows.
Displayed ==
  [comparisons |-> comparisons, store1Total |-> store1Total,
   store2Total |-> store2Total, savingsPercentage |-> savingsPercentage,
   savingsText |-> savingsText]

\* C11: each price shown comes from the store's row with the greatest
\* date_observed among the product's rows of that store, and the screen is
\* what it would be had the rows of other stores not been there.
C11_LatestOfStore ==
  shownFor.store1 # "none" =>
    /\ Len(comparisons) = Len(listItems)
    /\ \A i \in 1 .. Len(comparisons) :
         /\ IsLatestPrice(listItems[i].product_prices, shownFor.store1,
                          comparisons[i].store1Price)
         /\ IsLatestPrice(listItems[i].product_prices, shownFor.store2,
                          comparisons[i].store2Price)
    /\ Displayed =
         Shown(PriceComparisons(
                 OfStores(listItems, shownFor.store1, shownFor.store2),
                 shownFor.store1, shownFor.store2))

\* The later of two rows of s1 was taken, though it comes first neither in
\* the list nor among all stores' rows by date.
C11_Witness ==
  /\ shownFor = [store1 |-> "s1", store2 |-> "s2"]
  /\ Len(listItems) > 0
  /\ Len(RowsAt(1, "s1")) = 2
  /\ RowsAt(1, "s1")[1].date_observed < RowsAt(1, "s1")[2].date_observed
  /\ comparisons[1].store1Price = Num(6)

\* The rows shown, up to the n-th, with a price at both stores.
Paired(n) ==
  {i \in 1 .. n :
     ~comparisons[i].store1Price.isNull /\ ~comparisons[i].store2Price.isNull}

RECURSIVE PairedSum1(_)
PairedSum1(n) ==
  IF n = 0 THEN 0
  ELSE PairedSum1(n - 1) +
       (IF n \in Paired(n) THEN comparisons[n].store1Price.v ELSE 0)

RECURSIVE PairedSum2(_)
PairedSum2(n) ==
  IF n = 0 THEN 0
  ELSE PairedSum2(n - 1) +
       (IF n \in Paired(n) THEN comparisons[n].store2Price.v ELSE 0)

\* C12: after a compare that found a row with both prices, store1Total and
\* store2Total are the sums of store1Price and of store2Price over the rows
\* with both prices; a row with one price adds to neither.
C12_TotalsOverPaired ==
  (shownFor.store1 # "none" /\ Paired(Len(comparisons)) # {}) =>
    /\ store1Total = Num(PairedSum1(Len(comparisons)))
    /\ store2Total = Num(PairedSum2(Len(comparisons)))

\* Milk has a price at store 1 only, bread at both: the totals are bread's.
C12_Witness ==
  /\ shownFor = [store1 |-> "s1", store2 |-> "s2"]
  /\ Len(comparisons) = 2
  /\ comparisons[1].store1Price = Num(5)
  /\ comparisons[1].store2Price = Null
  /\ store1Total = Num(2)
  /\ store2Total = Num(2)

NoRowAt(i, storeId) ==
  \A j \in 1 .. Len(listItems[i].product_prices) :
    listItems[i].product_prices[j].store_id # storeId

\* C14: after a compare of a list none of whose products has a row at both
\* stores, the totals and the percentage are null and no row is counted as
\* compared, whatever was shown before.
C14_NothingComparable ==
  (/\ shownFor.store1 # "none"
   /\ \A i \in 1 .. Len(listItems) :
        NoRowAt(i, shownFor.store1) \/ NoRowAt(i, shownFor.store2)) =>
    /\ store1Total = Null
    /\ store2Total = Null
    /\ savingsPercentage = NoSavings
    /\ savingsText = NoProducts
    /\ Paired(Len(comparisons)) = {}

\* Totals were on the screen when the compare without a common product
\* replaced them.
C14_Witness ==
  /\ shownFor = [store1 |-> "s1", store2 |-> "s2"]
  /\ Len(listItems) > 0
  /\ \A i \in 1 .. Len(listItems) : NoRowAt(i, "s1") \/ NoRowAt(i, "s2")
  /\ ~replacedTotal.isNull
  /\ store1Total = Null
  /\ savingsPercentage = NoSavings

\* C15: the step in which a compare's fetch fails shows the failure alert,
\* changes nothing of what the screen shows and issues no other fetch.
C15_FailedFetch ==
  [][\A k \in CompareIds :
       (compares[k].pc = "fetching" /\ compares'[k].pc = "failed") =>
         /\ alert' = "failed"
         /\ UNCHANGED <<comparisons, store1Total, store2Total,
                        savingsPercentage, savingsText, shownFor>>
         /\ \A j \in CompareIds \ {k} : compares'[j] = compares[j]]_vars

\* A fetch failed while an earlier compare's totals were shown: they stay.
C15_Witness ==
  /\ \E k \in CompareIds : compares[k].pc = "failed"
  /\ \A k \in CompareIds : compares[k].pc # "fetching"
  /\ alert = "failed"
  /\ ~store1Total.isNull
  /\ comparisons # <<>>

\* C20: while a store is unselected no step issues a fetch, and the step
\* that shows the select-both alert changes neither the calls nor what the
\* screen shows.
C20_UnselectedRejected ==
  [][/\ (store1 = "none" \/ store2 = "none") =>
          \A k \in CompareIds :
            compares[k].pc = "idle" => compares'[k].pc = "idle"
     /\ (alert' = "selectBoth" /\ alert # "selectBoth") =>
          /\ store1 = "none" \/ store2 = "none"
          /\ UNCHANGED <<comparisons, store1Total, store2Total,
                         savingsPercentage, savingsText, shownFor, compares>>
    ]_vars

\* Compare was pressed with store 1 cleared: the earlier rows are shown.
C20_Witness ==
  /\ alert = "selectBoth"
  /\ store1 = "none"
  /\ \A k \in CompareIds : compares[k].pc # "fetching"
  /\ ~store1Total.isNull
  /\ comparisons # <<>>

----------------------------------------------------------------------------
(* Properties of the calls' use of the backend                             *)

C17_CheckFailureReported ==
  \A c \in CallIds :
    (calls[c].pc \in {"insert", "done"} /\ ~calls[c].checkOk) =>
      /\ calls[c].pc = "done"
      /\ calls[c].result = Ok(FALSE)
      /\ ~calls[c].inserted

\* C18, as stated: no query is awaited for an empty listId, and the call
\* returns no code.
C18_EmptyRejected ==
  /\ genPc = "fetching" => genListId # <<>>
  /\ (genPc = "done" /\ genListId = <<>>) => genResult.threw

\* C18, amended: a call with an empty listId issues the query as any call
\* does; the query finds no list, its error is rethrown and no code is
\* returned.
C18_EmptyQueried ==
  [][/\ (genPc = "idle" /\ genPc' = "fetching" /\ genListId' = <<>>) =>
          genQueries' = genQueries + 1
     /\ (genPc = "fetching" /\ genPc' = "done" /\ genListId = <<>>) =>
          genResult'.threw
    ]_vars

\* A call with an empty listId ended, with an exception, after its query.
C18_Witness ==
  /\ genPc = "done"
  /\ genListId = <<>>
  /\ genResult.threw
  /\ genQueries > 0

\* C19: a code is refused only for its age. A scan within 24 hours of the
\* code's timestamp is decoded and joinSharedList is called with its list,
\* whoever used the code before; a later scan is refused; and a call all of
\* whose requests the store answered returns true unless the uniqueness
\* constraint rejected its insert.
C19_TimeBasedOnly ==
  \A c \in CallIds :
    calls[c].at # 0 =>
      /\ calls[c].at - IssuedAt <= expirationTime =>
           /\ calls[c].pc # "rejected"
           /\ calls[c].shareData.listId \in InvitedLists
           /\ calls[c].shareData.timestamp = IssuedAt
      /\ calls[c].at - IssuedAt > expirationTime => calls[c].pc = "rejected"
      /\ (/\ Answered(c)
          /\ ~(/\ uniqueConstraint
               /\ calls[c].existingMember = 0
               /\ calls[c].rowsAtInsert >= 1)) =>
           calls[c].result = Ok(TRUE)

\* A user joined the list with the code; later, exactly 24 hours after the
\* code was issued, another user's scan of the same code was accepted too.
C19_Witness ==
  \E c, d \in CallIds :
    /\ c \in calls[d].after
    /\ calls[c].userId # calls[d].userId
    /\ calls[c].shareData = calls[d].shareData
    /\ calls[c].at # 0
    /\ calls[d].at = IssuedAt + expirationTime
    /\ calls[c].inserted
    /\ calls[c].result = Ok(TRUE)
    /\ calls[d].result = Ok(TRUE)

\* C21: after a compare there is one row per list item fetched; when a row
\* has both prices, the count reported is the number of such rows, out of
\* the number of list items, and is at most that number; a product with rows
\* at one of the two stores only has that store's price, null for the other
\* price and null for priceDiff.
C21_RowsAndCounts ==
  shownFor.store1 # "none" =>
    /\ Len(comparisons) = Len(listItems)
    /\ Paired(Len(comparisons)) # {} =>
         /\ savingsText.kind = "basedOn"
         /\ savingsText.valid = Cardinality(Paired(Len(comparisons)))
         /\ savingsText.total = Len(listItems)
         /\ savingsText.valid <= savingsText.total
    /\ \A i \in 1 .. Len(comparisons) :
         /\ (~NoRowAt(i, shownFor.store1) /\ NoRowAt(i, shownFor.store2)) =>
              /\ ~comparisons[i].store1Price.isNull
              /\ comparisons[i].store2Price = Null
              /\ comparisons[i].priceDiff = Null
         /\ (NoRowAt(i, shownFor.store1) /\ ~NoRowAt(i, shownFor.store2)) =>
              /\ comparisons[i].store1Price = Null
              /\ ~comparisons[i].store2Price.isNull
              /\ comparisons[i].priceDiff = Null

\* One product of two was compared; the other has a price at store 1 only.
C21_Witness ==
  /\ shownFor = [store1 |-> "s1", store2 |-> "s2"]
  /\ savingsText = [kind |-> "basedOn", valid |-> 1, total |-> 2]
  /\ \E i \in 1 .. Len(comparisons) :
       /\ ~NoRowAt(i, "s1") /\ NoRowAt(i, "s2")
       /\ ~comparisons[i].store1Price.isNull
       /\ comparisons[i].store2Price = Null
       /\ comparisons[i].priceDiff = Null

\* C22: a well-formed code with the three properties truthy decodes to its
\* record whenever the clock is at most 24 hours past its timestamp: at
\* exactly 24 hours, and with a timestamp later than the clock.
C22_ValidWithinWindow ==
  (/\ \/ decKind = "wellFormed"
      \/ decKind = "generated" /\ Len(genListId) > 0
   /\ StampOf(decFrom) # 0
   /\ decAt - StampOf(decFrom) <= expirationTime) =>
    /\ decoded = Ok(decFrom)
    /\ decoded.val # JNull

\* A code of exactly 24 hours was accepted.
C22_Witness ==
  /\ decKind = "wellFormed"
  /\ decAt - StampOf(decFrom) = expirationTime
  /\ decoded = Ok(decFrom)
  /\ decoded.val.t = "obj"

\* C23: when the banner is shown it names store 2 as cheaper exactly when
\* store2Total < store1Total and store 1 exactly when
\* store1Total < store2Total; with equal totals it names neither.
C23_BannerNamesCheaper ==
  BannerCheaper(savingsPercentage) # "hidden" =>
    /\ BannerCheaper(savingsPercentage) = "store2" <=>
         store2Total.v < store1Total.v
    /\ BannerCheaper(savingsPercentage) = "store1" <=>
         store1Total.v < store2Total.v

\* C24 as stated: no membership row is created from an invitation that is
\* older than 24 hours when joinSharedList creates it.
C24_NoRowAfterWindow ==
  \A c \in CallIds :
    calls[c].inserted =>
      calls[c].insertedAt - calls[c].shareData.timestamp <= expirationTime

\* C24: the age of an invitation is tested once, when the scanned code is
\* decoded. A call of joinSharedList is made only with a record that was at
\* most 24 hours old at the scan, and the call, which reads neither the
\* clock nor the timestamp, creates the row it would create for a fresh
\* record, however late the store answers.
C24_AgeTestedAtScan ==
  \A c \in CallIds :
    /\ calls[c].pc \in {"check", "insert", "done"} =>
         /\ calls[c].at - calls[c].shareData.timestamp <= expirationTime
         /\ calls[c].shareData.timestamp = IssuedAt
    /\ calls[c].pc = "rejected" => calls[c].at - IssuedAt > expirationTime
    /\ (calls[c].pc = "done" /\ calls[c].existingMember = 0) =>
         /\ calls[c].inserted = (~uniqueConstraint \/ calls[c].rowsAtInsert = 0)
         /\ calls[c].result = Ok(calls[c].inserted)

\* A code scanned within its 24 hours gave a row after them.
C24_Witness ==
  \E c \in CallIds :
    /\ calls[c].at - calls[c].shareData.timestamp <= expirationTime
    /\ calls[c].inserted
    /\ calls[c].insertedAt - calls[c].shareData.timestamp > expirationTime
    /\ calls[c].result = Ok(TRUE)
    /\ \E i \in 1 .. Len(members) : members[i] = Row(L1, "u2", "editor")

\* C25: whenever a row has both prices, savingsPercentage is a finite
\* number and its divisor store1Total is not 0.
C25_FinitePercentage ==
  (shownFor.store1 # "none" /\ Paired(Len(comparisons)) # {}) =>
    /\ savingsPercentage.kind = "finite"
    /\ store1Total.v # 0

\* C26: the rows, totals and banner on the screen were computed for the
\* stores that are selected now.
C26_ShownForSelected ==
  comparisons # <<>> => shownFor = [store1 |-> store1, store2 |-> store2]

\* C27: the response of an invocation that arrives after the response of a
\* later invocation does not replace what the later one displayed.
C27_LaterInvocationShown ==
  [][\A k \in CompareIds :
       (/\ compares[k].pc = "fetching"
        /\ compares'[k].pc = "done"
        /\ \E j \in CompareIds : j > k /\ compares[j].pc = "done") =>
         UNCHANGED <<comparisons, store1Total, store2Total,
                     savingsPercentage, savingsText, shownFor>>]_vars

----------------------------------------------------------------------------
(* Properties of the scan screen                                           *)

\* C28: at most one handler awaits joinSharedList at any time.
C28_OneAttempt == Cardinality(awaiting) <= 1

\* The outcomes after which the screen asks to scan again.
ScanFailures == {"invalid", "noUser", "failed", "exception"}

\* C29: after an unsuccessful outcome (a code that does not decode, no
\* user, joinSharedList returned false) processing is false, and a state
\* follows in which scanned is false.
C29_FailureResets ==
  /\ [](outcome \in ScanFailures => ~processing)
  /\ (outcome \in ScanFailures) ~> ~scanned

\* joinSharedList returned false, the timer has fired and the render shows
\* a screen that handles the next barcode.
C29_Witness ==
  /\ outcome = "failed"
  /\ timers = 0
  /\ ~scanned /\ ~processing
  /\ view = [scanned |-> FALSE, processing |-> FALSE]
  /\ \E c \in CallIds : calls[c].pc = "done" /\ calls[c].result = Ok(FALSE)

----------------------------------------------------------------------------
(* Properties of the unread count                                          *)

\* The last call that issued a query.
LastFetch ==
  CHOOSE f \in FetchIds :
    /\ fetches[f].pc # "idle"
    /\ \A g \in FetchIds : g > f => fetches[g].pc = "idle"

\* C30: when no call is in flight and the query issued last was answered,
\* count is the count of that answer and every registered listener was
\* last called with it.
C30_CountOfLastQuery ==
  (/\ \A f \in FetchIds : fetches[f].pc \in {"idle", "done", "failed"}
   /\ fetches[1].pc # "idle"
   /\ fetches[LastFetch].pc = "done") =>
    /\ count = CountOrZero(fetches[LastFetch].count)
    /\ \A l \in listeners : heard[l] = CountOrZero(fetches[LastFetch].count)

====
